---- MODULE Spec2Model ----
(***************************************************************************)
(* Model of scripts/faasr_inject_vm.py: the VMInjectionTool that augments  *)
(* a FaaSr workflow document with VM start / poll / stop actions.          *)
(*                                                                         *)
(* A workflow document is a record                                         *)
(*   ActionList       the ordered action map (a Python dict keeps its      *)
(*                    insertion order): a sequence of action records       *)
(*   ActionContainers [present, map]: the optional action -> image map     *)
(*   ComputeServers   [present, list]: the optional ordered server map     *)
(*   VMConfig         whether the "VMConfig" key is present                *)
(*   FunctionInvoke   the entry-point field                                *)
(*                                                                         *)
(* An action's InvokeNext is one tagged record for the four JSON shapes:   *)
(*   shape "absent"  no InvokeNext key                                     *)
(*   shape "str"     a single string, items = <<s>>                        *)
(*   shape "list"    a list of strings, items                              *)
(*   shape "dict"    a condition map: keys[i] -> vals[i], each value a     *)
(*                   single string (isList FALSE, items = <<s>>) or a list *)
(*                                                                         *)
(* The module also models the timer scripts (scripts/set_workflow_timer.py *)
(* and scripts/unset_workflow_timer.py) and the registration that writes   *)
(* the file they edit (scripts/register_set_unset_workflow.py).  A run of  *)
(* a timer script reads the YAML file of a GitHub Actions workflow, edits  *)
(* the parsed document and writes it back; a registration replaces the     *)
(* file by a generated text.  yaml_file is the file, registered_file the   *)
(* file as the last registration left it (or as it was at the start),      *)
(* workflow_yaml the document in memory at the end of the last run, calls  *)
(* the runs of the timer scripts made on the file since.                   *)
(***************************************************************************)
EXTENDS Naturals, Sequences, FiniteSets, TLC

VARIABLES pc, op, strategy, workflow, original_workflow, output, ret,
          yaml_file, registered_file, workflow_yaml, calls

vars == <<pc, op, strategy, workflow, original_workflow, output, ret,
          yaml_file, registered_file, workflow_yaml, calls>>

(* The state of VMInjectionTool, and the state of the timer scripts. *)
tool_vars == <<strategy, workflow, original_workflow, output, ret>>

timer_vars == <<yaml_file, registered_file, workflow_yaml, calls>>

(***************************************************************************)
(* Bounds of the input documents.                                          *)
(***************************************************************************)
MaxEdges == 3

UserNames == <<"a", "b", "c">>

ConditionLabels == <<"onSuccess", "onFailure">>

vm_start_name == "faasr-vm-start"

vm_stop_name == "faasr-vm-stop"

poll_action_name(vm_action_name) == "faasr-vm-poll-" \o vm_action_name

(***************************************************************************)
(* InvokeNext values.                                                      *)
(***************************************************************************)
AbsentNext == [shape |-> "absent", items |-> <<>>, keys |-> <<>>, vals |-> <<>>]

StrNext(s) == [shape |-> "str", items |-> <<s>>, keys |-> <<>>, vals |-> <<>>]

ListNext(l) == [shape |-> "list", items |-> l, keys |-> <<>>, vals |-> <<>>]

DictNext(ks, vs) == [shape |-> "dict", items |-> <<>>, keys |-> ks, vals |-> vs]

SingleVal(s) == [isList |-> FALSE, items |-> <<s>>]

ListVal(l) == [isList |-> TRUE, items |-> l]

SeqToSet(s) == {s[i] : i \in 1..Len(s)}

RECURSIVE ConcatAll(_)
ConcatAll(ss) == IF ss = <<>> THEN <<>> ELSE Head(ss) \o ConcatAll(Tail(ss))

(***************************************************************************)
(* Python truthiness of an InvokeNext value: `not invoke_next`.            *)
(***************************************************************************)
Falsy(inv) ==
    CASE inv.shape = "absent" -> TRUE
      [] inv.shape = "str" -> inv.items[1] = ""
      [] inv.shape = "list" -> inv.items = <<>>
      [] inv.shape = "dict" -> inv.keys = <<>>

(***************************************************************************)
(* The successor list find_entry_action iterates over: a string becomes a  *)
(* one-element list, a condition map is flattened value by value (a list   *)
(* value is extended, any other value appended), a list is taken as is.    *)
(***************************************************************************)
FlattenInvokeNextDropLists(inv) ==
    CASE inv.shape = "absent" -> <<>>
      [] inv.shape = "str" -> inv.items
      [] inv.shape = "list" -> inv.items
      [] inv.shape = "dict" ->
           ConcatAll([i \in 1..Len(inv.vals) |->
                        IF inv.vals[i].isList THEN <<>> ELSE inv.vals[i].items])

FlattenInvokeNext(inv) ==
    CASE inv.shape = "absent" -> <<>>
      [] inv.shape = "str" -> inv.items
      [] inv.shape = "list" -> inv.items
      [] inv.shape = "dict" ->
           ConcatAll([i \in 1..Len(inv.vals) |-> inv.vals[i].items])

(***************************************************************************)
(* The action map.                                                         *)
(***************************************************************************)
ActionNames(action_list) == [i \in 1..Len(action_list) |-> action_list[i].name]

InActionList(action_list, name) ==
    \E i \in 1..Len(action_list) : action_list[i].name = name

CountOf(s, x) == Cardinality({i \in 1..Len(s) : s[i] = x})

RECURSIVE SumSeq(_)
SumSeq(s) == IF s = <<>> THEN 0 ELSE Head(s) + SumSeq(Tail(s))

(***************************************************************************)
(* predecessor_count[name]: one per occurrence of name in the flattened    *)
(* successor list of every action.                                         *)
(***************************************************************************)
predecessor_countDistinct(action_list, name) ==
    Cardinality({i \in 1..Len(action_list) :
                    name \in SeqToSet(FlattenInvokeNext(action_list[i].InvokeNext))})

predecessor_count(action_list, name) ==
    SumSeq([i \in 1..Len(action_list) |->
              CountOf(FlattenInvokeNext(action_list[i].InvokeNext), name)])

SelectNames(action_list, Keep(_)) ==
    LET names == ActionNames(action_list)
        F[i \in 0..Len(names)] ==
            IF i = 0 THEN <<>>
            ELSE IF Keep(names[i]) THEN Append(F[i - 1], names[i]) ELSE F[i - 1]
    IN F[Len(names)]

(***************************************************************************)
(* find_entry_action: [err, name].                                         *)
(***************************************************************************)
find_entry_action(wf) ==
    LET action_list == wf.ActionList
        IsEntry(n) == predecessor_count(action_list, n) = 0
        entry_actions == SelectNames(action_list, IsEntry)
    IN IF Len(entry_actions) = 0 THEN [err |-> "NoEntryFound", name |-> ""]
       ELSE IF Len(entry_actions) > 1 THEN [err |-> "AmbiguousEntry", name |-> ""]
       ELSE [err |-> "none", name |-> entry_actions[1]]

(***************************************************************************)
(* find_leaf_actions: [err, names].  A leaf is an action whose InvokeNext  *)
(* is falsy.                                                               *)
(***************************************************************************)
find_leaf_actionsNoRaise(wf) ==
    LET action_list == wf.ActionList
        IsLeaf(n) == \E i \in 1..Len(action_list) :
                        action_list[i].name = n /\ Falsy(action_list[i].InvokeNext)
    IN [err |-> "none", names |-> SelectNames(action_list, IsLeaf)]

find_leaf_actions(wf) ==
    LET action_list == wf.ActionList
        IsLeaf(n) == \E i \in 1..Len(action_list) :
                        action_list[i].name = n /\ Falsy(action_list[i].InvokeNext)
        leaves == SelectNames(action_list, IsLeaf)
    IN IF leaves = <<>> THEN [err |-> "NoLeavesFound", names |-> <<>>]
       ELSE [err |-> "none", names |-> leaves]

(***************************************************************************)
(* needs_vm: some action has RequiresVM true.                              *)
(***************************************************************************)
needs_vmKeyPresent(wf) == wf.ActionList # <<>>

needs_vm(wf) == \E i \in 1..Len(wf.ActionList) : wf.ActionList[i].RequiresVM

(***************************************************************************)
(* find_github_server: [err, name], the first server of type GitHubActions.*)
(***************************************************************************)
find_github_serverAnyType(wf) ==
    LET servers == wf.ComputeServers.list
    IN IF ~wf.ComputeServers.present THEN [err |-> "NoComputeServers", name |-> ""]
       ELSE IF servers = <<>> THEN [err |-> "NoHostCapableServer", name |-> ""]
       ELSE [err |-> "none", name |-> servers[1].name]

find_github_server(wf) ==
    LET servers == wf.ComputeServers.list
        hits == {i \in 1..Len(servers) : servers[i].FaaSType = "GitHubActions"}
    IN IF ~wf.ComputeServers.present THEN [err |-> "NoComputeServers", name |-> ""]
       ELSE IF hits = {} THEN [err |-> "NoHostCapableServer", name |-> ""]
       ELSE [err |-> "none",
             name |-> servers[CHOOSE i \in hits : \A j \in hits : i <= j].name]

(***************************************************************************)
(* find_container_for_server: [found, image], the container of the first   *)
(* action bound to the server that has a (truthy) container entry.         *)
(***************************************************************************)
find_container_for_serverAnyAction(wf, server_name) ==
    LET action_list == wf.ActionList
        cmap == wf.ActionContainers.map
        hits == {i \in 1..Len(action_list) :
                    /\ action_list[i].name \in DOMAIN cmap
                    /\ cmap[action_list[i].name] # ""}
    IN IF hits = {} THEN [found |-> FALSE, image |-> ""]
       ELSE [found |-> TRUE,
             image |-> cmap[action_list[CHOOSE i \in hits : \A j \in hits : i <= j].name]]

find_container_for_server(wf, server_name) ==
    LET action_list == wf.ActionList
        cmap == wf.ActionContainers.map
        hits == {i \in 1..Len(action_list) :
                    /\ action_list[i].FaaSServer = server_name
                    /\ action_list[i].name \in DOMAIN cmap
                    /\ cmap[action_list[i].name] # ""}
    IN IF hits = {} THEN [found |-> FALSE, image |-> ""]
       ELSE [found |-> TRUE,
             image |-> cmap[action_list[CHOOSE i \in hits : \A j \in hits : i <= j].name]]

(***************************************************************************)
(* The injected actions and the mutations of the document.                 *)
(***************************************************************************)
BuiltinActionOnVM(name, function_name, github_server, invoke_next) ==
    [name |-> name, FunctionName |-> function_name, FaaSServer |-> github_server,
     RequiresVM |-> TRUE, InvokeNext |-> ListNext(invoke_next), builtin |-> TRUE]

BuiltinAction(name, function_name, github_server, invoke_next) ==
    [name |-> name, FunctionName |-> function_name, FaaSServer |-> github_server,
     RequiresVM |-> FALSE, InvokeNext |-> ListNext(invoke_next), builtin |-> TRUE]

SetInvokeNext(action_list, names, inv) ==
    [i \in 1..Len(action_list) |->
        IF action_list[i].name \in names
        THEN [action_list[i] EXCEPT !.InvokeNext = inv]
        ELSE action_list[i]]

SetContainers(containers, names, image) ==
    [present |-> TRUE,
     map |-> [n \in DOMAIN containers.map \cup names |->
                IF n \in names THEN image ELSE containers.map[n]]]

(***************************************************************************)
(* The checks both strategies make before they touch the document, in the  *)
(* order the code makes them: the first failing one is the error raised.   *)
(***************************************************************************)
VMConfigErrorSkipped(wf) == "none"

VMConfigError(wf) == IF ~wf.VMConfig THEN "VMConfigRequired" ELSE "none"

NameConflictErrorStartOnly(action_list) ==
    IF InActionList(action_list, vm_start_name) THEN "NameConflict" ELSE "none"

NameConflictError(action_list) ==
    IF InActionList(action_list, vm_start_name) THEN "NameConflict"
    ELSE IF InActionList(action_list, vm_stop_name) THEN "NameConflict"
    ELSE "none"

FirstError(errs) ==
    LET failed == {i \in 1..Len(errs) : errs[i] # "none"}
    IN IF failed = {} THEN "none"
       ELSE errs[CHOOSE i \in failed : \A j \in failed : i <= j]

Prerequisites(wf) ==
    LET entry == find_entry_action(wf)
        leaves == find_leaf_actions(wf)
        server == find_github_server(wf)
        err == FirstError(<<VMConfigError(wf), entry.err, leaves.err, server.err,
                            NameConflictError(wf.ActionList)>>)
    IN [err |-> err,
        entry_action |-> entry.name,
        leaf_actions |-> leaves.names,
        github_server |-> server.name,
        container |-> IF err = "none"
                      THEN find_container_for_server(wf, server.name)
                      ELSE [found |-> FALSE, image |-> ""]]

(***************************************************************************)
(* The start and stop actions, appended to the action map.                 *)
(***************************************************************************)
WithStartStop(action_list, pre) ==
    action_list \o
      << BuiltinAction(vm_start_name, "vm_start", pre.github_server, <<pre.entry_action>>),
         BuiltinAction(vm_stop_name, "vm_stop", pre.github_server, <<>>) >>

(***************************************************************************)
(* The tail both strategies share: leaves point to stop, the containers of *)
(* start and stop, FunctionInvoke.                                         *)
(***************************************************************************)
FinishEntryPointKept(wf, pre) ==
    [wf EXCEPT
       !.ActionList = SetInvokeNext(wf.ActionList, SeqToSet(pre.leaf_actions),
                                    ListNext(<<vm_stop_name>>)),
       !.ActionContainers =
           IF pre.container.found
           THEN SetContainers(wf.ActionContainers, {vm_start_name, vm_stop_name},
                              pre.container.image)
           ELSE [wf.ActionContainers EXCEPT !.present = TRUE]]

Finish(wf, pre) ==
    [wf EXCEPT
       !.ActionList = SetInvokeNext(wf.ActionList, SeqToSet(pre.leaf_actions),
                                    ListNext(<<vm_stop_name>>)),
       !.ActionContainers =
           IF pre.container.found
           THEN SetContainers(wf.ActionContainers, {vm_start_name, vm_stop_name},
                              pre.container.image)
           ELSE [wf.ActionContainers EXCEPT !.present = TRUE],
       !.FunctionInvoke = vm_start_name]

(***************************************************************************)
(* inject_vm_actions_sequential: [err, wf], wf the document as the call    *)
(* leaves it.                                                              *)
(***************************************************************************)
inject_vm_actions_sequential(wf) ==
    LET pre == Prerequisites(wf)
    IN IF pre.err # "none" THEN [err |-> pre.err, wf |-> wf]
       ELSE [err |-> "none",
             wf |-> Finish([wf EXCEPT !.ActionList = WithStartStop(wf.ActionList, pre)],
                           pre)]

(***************************************************************************)
(* The redirection of one action's InvokeNext from vm_action_name to its   *)
(* poll action.  A string is taken as a one-element list; `in` and the     *)
(* comprehension see a list's elements and a condition map's keys; what is *)
(* written back is a list.                                                 *)
(***************************************************************************)
RedirectViewReversed(inv) ==
    CASE inv.shape = "absent" -> <<>>
      [] inv.shape = "str" -> inv.items
      [] inv.shape = "list" -> [i \in 1..Len(inv.items) |-> inv.items[Len(inv.items) + 1 - i]]
      [] inv.shape = "dict" -> inv.keys

RedirectView(inv) ==
    CASE inv.shape = "absent" -> <<>>
      [] inv.shape = "str" -> inv.items
      [] inv.shape = "list" -> inv.items
      [] inv.shape = "dict" -> inv.keys

RedirectActionPollIncluded(action, vm_action_name, poll_name) ==
    LET invoke_next == RedirectView(action.InvokeNext)
    IN IF vm_action_name \in SeqToSet(invoke_next)
       THEN [action EXCEPT !.InvokeNext =
                ListNext([i \in 1..Len(invoke_next) |->
                            IF invoke_next[i] = vm_action_name
                            THEN poll_name ELSE invoke_next[i]])]
       ELSE action

RedirectAction(action, vm_action_name, poll_name) ==
    LET invoke_next == RedirectView(action.InvokeNext)
    IN IF action.name # poll_name /\ vm_action_name \in SeqToSet(invoke_next)
       THEN [action EXCEPT !.InvokeNext =
                ListNext([i \in 1..Len(invoke_next) |->
                            IF invoke_next[i] = vm_action_name
                            THEN poll_name ELSE invoke_next[i]])]
       ELSE action

(***************************************************************************)
(* One iteration of the loop over vm_actions: the name check, the poll     *)
(* action, its container, the redirection scan.                            *)
(***************************************************************************)
InjectPollUserActionsOnly(st, vm_action_name, pre) ==
    LET poll_name == poll_action_name(vm_action_name)
        added == Append(st.wf.ActionList,
                        BuiltinAction(poll_name, "vm_poll", pre.github_server,
                                      <<vm_action_name>>))
    IN IF st.err # "none" THEN st
       ELSE IF InActionList(st.wf.ActionList, poll_name)
       THEN [err |-> "NameConflict", wf |-> st.wf]
       ELSE [err |-> "none",
             wf |-> [st.wf EXCEPT
                       !.ActionList =
                           [i \in 1..Len(added) |->
                              IF added[i].builtin THEN added[i]
                              ELSE RedirectAction(added[i], vm_action_name, poll_name)],
                       !.ActionContainers =
                           IF pre.container.found
                           THEN SetContainers(st.wf.ActionContainers, {poll_name},
                                              pre.container.image)
                           ELSE st.wf.ActionContainers]]

InjectPoll(st, vm_action_name, pre) ==
    LET poll_name == poll_action_name(vm_action_name)
        added == Append(st.wf.ActionList,
                        BuiltinAction(poll_name, "vm_poll", pre.github_server,
                                      <<vm_action_name>>))
    IN IF st.err # "none" THEN st
       ELSE IF InActionList(st.wf.ActionList, poll_name)
       THEN [err |-> "NameConflict", wf |-> st.wf]
       ELSE [err |-> "none",
             wf |-> [st.wf EXCEPT
                       !.ActionList =
                           [i \in 1..Len(added) |->
                              RedirectAction(added[i], vm_action_name, poll_name)],
                       !.ActionContainers =
                           IF pre.container.found
                           THEN SetContainers(st.wf.ActionContainers, {poll_name},
                                              pre.container.image)
                           ELSE st.wf.ActionContainers]]

RECURSIVE InjectPolls(_, _, _)
InjectPolls(st, vm_actions, pre) ==
    IF vm_actions = <<>> THEN st
    ELSE InjectPolls(InjectPoll(st, Head(vm_actions), pre), Tail(vm_actions), pre)

FindVMActionsEveryAction(action_list) ==
    LET NotBuiltin(n) == \E i \in 1..Len(action_list) :
                            action_list[i].name = n /\ ~action_list[i].builtin
    IN SelectNames(action_list, NotBuiltin)

FindVMActions(action_list) ==
    LET RequiresVM(n) == \E i \in 1..Len(action_list) :
                            action_list[i].name = n /\ action_list[i].RequiresVM
    IN SelectNames(action_list, RequiresVM)

(***************************************************************************)
(* inject_vm_actions_parallel: [err, wf].  A poll-name conflict is raised  *)
(* from inside the loop, after start, stop and the earlier polls are in.   *)
(***************************************************************************)
inject_vm_actions_parallelLeavesKept(wf) ==
    LET pre == Prerequisites(wf)
        started == [wf EXCEPT !.ActionList = WithStartStop(wf.ActionList, pre)]
        polled == InjectPolls([err |-> "none", wf |-> started],
                              FindVMActions(started.ActionList), pre)
    IN IF pre.err # "none" THEN [err |-> pre.err, wf |-> wf]
       ELSE IF polled.err # "none" THEN polled
       ELSE [err |-> "none",
             wf |-> Finish(polled.wf, [pre EXCEPT !.leaf_actions = <<>>])]

inject_vm_actions_parallel(wf) ==
    LET pre == Prerequisites(wf)
        started == [wf EXCEPT !.ActionList = WithStartStop(wf.ActionList, pre)]
        polled == InjectPolls([err |-> "none", wf |-> started],
                              FindVMActions(started.ActionList), pre)
    IN IF pre.err # "none" THEN [err |-> pre.err, wf |-> wf]
       ELSE IF polled.err # "none" THEN polled
       ELSE [err |-> "none", wf |-> Finish(polled.wf, pre)]

(***************************************************************************)
(* The input documents load_workflow may read.                             *)
(*                                                                         *)
(* Graph documents: up to Len(UserNames) actions named by UserNames, with  *)
(* VMConfig and one GitHubActions server present and no containers; every  *)
(* RequiresVM assignment; self loops, cycles and repeated targets          *)
(* included.  Either every InvokeNext is a list and the document holds at  *)
(* most MaxEdges successor occurrences, or one action is written in        *)
(* another shape and the document holds at most MaxEdges - 1.              *)
(*                                                                         *)
(* Environment documents: actions with at most one successor each, the     *)
(* last action possibly carrying a reserved name, VMConfig present or not, *)
(* the server map absent, without or with a GitHubActions server, a        *)
(* container for the first action.                                         *)
(***************************************************************************)
TargetSeqs(names, k) == UNION {[1..j -> names] : j \in 0..k}

RECURSIVE EdgeChoices(_, _, _)
EdgeChoices(n, budget, names) ==
    IF n = 0 THEN {<<>>}
    ELSE UNION {{<<ts>> \o rest : rest \in EdgeChoices(n - 1, budget - Len(ts), names)} :
                  ts \in TargetSeqs(names, budget)}

OtherShapes(ts) ==
    LET S == ConditionLabels[1]
        F == ConditionLabels[2]
    IN {DictNext(<<S>>, <<ListVal(ts)>>)}
       \cup (IF Len(ts) = 0 THEN {AbsentNext, DictNext(<<>>, <<>>)} ELSE {})
       \cup (IF Len(ts) = 1 THEN {StrNext(ts[1]), DictNext(<<S>>, <<SingleVal(ts[1])>>)}
             ELSE {})
       \cup (IF Len(ts) >= 1
             THEN {DictNext(<<S, F>>, <<SingleVal(ts[1]), ListVal(Tail(ts))>>)} ELSE {})
       \cup (IF Len(ts) = 2
             THEN {DictNext(<<S, F>>, <<SingleVal(ts[1]), SingleVal(ts[2])>>)} ELSE {})

AllLists(edges) == [i \in 1..Len(edges) |-> ListNext(edges[i])]

OneOtherShape(edges) ==
    UNION {{[i \in 1..Len(edges) |-> IF i = k THEN inv ELSE ListNext(edges[i])] :
              inv \in OtherShapes(edges[k])} : k \in 1..Len(edges)}

UserAction(name, server, requires_vm, invoke_next) ==
    [name |-> name, FunctionName |-> "f_" \o name, FaaSServer |-> server,
     RequiresVM |-> requires_vm, InvokeNext |-> invoke_next, builtin |-> FALSE]

GitHubServer == [name |-> "gh", FaaSType |-> "GitHubActions"]

OtherServer == [name |-> "ow", FaaSType |-> "OpenWhisk"]

GitHubServer2 == [name |-> "gh2", FaaSType |-> "GitHubActions"]

(* A server entry without a "FaaSType" key. *)
UntypedServer == [name |-> "nt", FaaSType |-> ""]

Document(action_list, containers, servers, vm_config) ==
    [ActionList |-> action_list,
     ActionContainers |-> containers,
     ComputeServers |-> servers,
     VMConfig |-> vm_config,
     FunctionInvoke |-> IF action_list = <<>> THEN "" ELSE action_list[1].name]

NoContainers == [present |-> FALSE, map |-> [n \in {} |-> ""]]

GraphDocument(n, invs, vm) ==
    Document([i \in 1..n |-> UserAction(UserNames[i], "gh", vm[i], invs[i])],
             NoContainers,
             [present |-> TRUE, list |-> <<GitHubServer>>],
             TRUE)

ReservedNames == {vm_start_name, vm_stop_name,
                  poll_action_name(UserNames[1]), poll_action_name(UserNames[2])}

Namings(n) ==
    {SubSeq(UserNames, 1, n)}
    \cup (IF n = 0 THEN {}
          ELSE {Append(SubSeq(UserNames, 1, n - 1), r) : r \in ReservedNames})

ServerMaps ==
    {[present |-> FALSE, list |-> <<>>],
     [present |-> TRUE, list |-> <<OtherServer>>],
     [present |-> TRUE, list |-> <<OtherServer, GitHubServer>>]}

EnvDocument(n, names, vm, next, servers, vm_config) ==
    Document([i \in 1..n |->
                UserAction(names[i], IF i = 1 THEN "gh" ELSE "ow", vm[i],
                           ListNext(IF next[i] = 0 THEN <<>> ELSE <<names[next[i]]>>))],
             IF n = 0 THEN NoContainers
             ELSE [present |-> TRUE, map |-> [x \in {names[1]} |-> "img"]],
             servers,
             vm_config)

(***************************************************************************)
(* Chain documents: the four actions of ChainNames, each naming the next   *)
(* one as its only successor, the last one a leaf; every RequiresVM        *)
(* assignment; each edge written as a list, a single string or a condition *)
(* map.                                                                    *)
(***************************************************************************)
ChainNames == <<"entry", "A", "B", "leaf">>

EdgeShapes == {"list", "str", "dict"}

ChainEdge(shape, target) ==
    CASE shape = "list" -> ListNext(<<target>>)
      [] shape = "str" -> StrNext(target)
      [] shape = "dict" -> DictNext(<<ConditionLabels[1]>>, <<SingleVal(target)>>)

ChainDocument(vm, shapes) ==
    LET n == Len(ChainNames)
    IN Document([i \in 1..n |->
                   UserAction(ChainNames[i], "gh", vm[i],
                              IF i = n THEN ListNext(<<>>)
                              ELSE ChainEdge(shapes[i], ChainNames[i + 1]))],
                NoContainers,
                [present |-> TRUE, list |-> <<GitHubServer>>],
                TRUE)

(***************************************************************************)
(* Binding documents: a chain of up to MaxBound VM-requiring actions, each  *)
(* bound to one of the servers of ServerNames and with no container entry, *)
(* an empty one or an image of its own; the container map absent or        *)
(* present; the server map one of ServerLists.                             *)
(***************************************************************************)
ServerNames == {"gh", "gh2", "ow"}

ServerLists ==
    {[present |-> FALSE, list |-> <<>>],
     [present |-> TRUE, list |-> <<>>],
     [present |-> TRUE, list |-> <<OtherServer>>],
     [present |-> TRUE, list |-> <<UntypedServer>>],
     [present |-> TRUE, list |-> <<GitHubServer>>],
     [present |-> TRUE, list |-> <<GitHubServer, OtherServer>>],
     [present |-> TRUE, list |-> <<UntypedServer, GitHubServer2>>],
     [present |-> TRUE, list |-> <<GitHubServer2, GitHubServer>>],
     [present |-> TRUE, list |-> <<OtherServer, GitHubServer2, GitHubServer>>]}

ContainerEntries == {"absent", "", "img"}

BindingDocument(n, bound_to, entries, has_containers, servers) ==
    LET names == SubSeq(UserNames, 1, n)
        with_entry == {i \in 1..n : entries[i] # "absent"}
    IN Document([i \in 1..n |->
                   UserAction(names[i], bound_to[i], TRUE,
                              ListNext(IF i = n THEN <<>> ELSE <<names[i + 1]>>))],
                [present |-> has_containers,
                 map |-> [x \in {names[i] : i \in with_entry} |->
                            LET i == CHOOSE j \in with_entry : names[j] = x
                            IN IF entries[i] = "" THEN "" ELSE "img_" \o x]],
                servers,
                TRUE)

MaxBound == 2

(* Reads(Use): Use holds of one of the input documents. *)
Reads(Use(_)) ==
    \/ \E n \in 0..Len(UserNames) :
         \E edges \in EdgeChoices(n, MaxEdges, SeqToSet(SubSeq(UserNames, 1, n))) :
           \E vm \in [1..n -> BOOLEAN] :
             Use(GraphDocument(n, AllLists(edges), vm))
    \/ \E n \in 1..Len(UserNames) :
         \E edges \in EdgeChoices(n, MaxEdges - 1, SeqToSet(SubSeq(UserNames, 1, n))) :
           \E invs \in OneOtherShape(edges), vm \in [1..n -> BOOLEAN] :
             Use(GraphDocument(n, invs, vm))
    \/ \E n \in 0..Len(UserNames) :
         \E names \in Namings(n), vm \in [1..n -> BOOLEAN], next \in [1..n -> 0..n],
            servers \in ServerMaps, vm_config \in BOOLEAN :
             Use(EnvDocument(n, names, vm, next, servers, vm_config))
    \/ \E vm \in [1..Len(ChainNames) -> BOOLEAN],
          shapes \in [1..(Len(ChainNames) - 1) -> EdgeShapes] :
             Use(ChainDocument(vm, shapes))
    \/ \E n \in 1..MaxBound :
         \E bound_to \in [1..n -> ServerNames],
            entries \in [1..n -> ContainerEntries], has_containers \in BOOLEAN,
            servers \in ServerLists :
             /\ has_containers \/ \A i \in 1..n : entries[i] = "absent"
             /\ Use(BindingDocument(n, bound_to, entries, has_containers, servers))

Strategies == {"sequential", "parallel", "fastest"}

(***************************************************************************)
(* The tool: the state after __init__, and its methods.                    *)
(***************************************************************************)
NoDocument == Document(<<>>, NoContainers, [present |-> FALSE, list |-> <<>>], FALSE)

(* No YAML document has been read. *)
NoYaml == [kind |-> "unread", triggers |-> [k \in {} |-> ""],
           jobs |-> [present |-> FALSE, list |-> <<>>]]

(* No YAML file is at hand. *)
NoFile == [form |-> "absent", key_column |-> 0, section_column |-> 0,
           entries |-> <<>>, jobs |-> [present |-> FALSE, list |-> <<>>]]

NoReturn == [err |-> "none", name |-> "", names |-> <<>>, success |-> FALSE,
             server_name |-> "", container |-> [found |-> FALSE, image |-> ""]]

Init ==
    /\ pc = "constructed"
    /\ op = "__init__"
    /\ strategy = ""
    /\ workflow = NoDocument
    /\ original_workflow = NoDocument
    /\ output = NoDocument
    /\ ret = NoReturn
    /\ yaml_file = NoFile
    /\ registered_file = NoFile
    /\ workflow_yaml = NoYaml
    /\ calls = <<>>

(* load_workflow: the document read, and its deep copy. *)
load_workflow ==
    /\ pc = "constructed"
    /\ LET Load(doc) == workflow' = doc /\ original_workflow' = doc
       IN Reads(Load)
    /\ pc' = "loaded"
    /\ op' = "load_workflow"
    /\ UNCHANGED <<strategy, output, ret>>
    /\ UNCHANGED timer_vars

(* find_entry_action called on the loaded document. *)
FindEntryAction ==
    /\ pc = "loaded"
    /\ LET r == find_entry_action(workflow)
       IN ret' = [NoReturn EXCEPT !.err = r.err, !.name = r.name]
    /\ pc' = "returned"
    /\ op' = "find_entry_action"
    /\ UNCHANGED <<strategy, workflow, original_workflow, output>>
    /\ UNCHANGED timer_vars

(* find_leaf_actions called on the loaded document. *)
FindLeafActions ==
    /\ pc = "loaded"
    /\ LET r == find_leaf_actions(workflow)
       IN ret' = [NoReturn EXCEPT !.err = r.err, !.names = r.names]
    /\ pc' = "returned"
    /\ op' = "find_leaf_actions"
    /\ UNCHANGED <<strategy, workflow, original_workflow, output>>
    /\ UNCHANGED timer_vars

(* find_github_server called on the loaded document. *)
FindGithubServer ==
    /\ pc = "loaded"
    /\ LET r == find_github_server(workflow)
       IN ret' = [NoReturn EXCEPT !.err = r.err, !.name = r.name]
    /\ pc' = "returned"
    /\ op' = "find_github_server"
    /\ UNCHANGED <<strategy, workflow, original_workflow, output>>
    /\ UNCHANGED timer_vars

(* find_container_for_server(server_name) called on the loaded document. *)
FindContainerForServer ==
    /\ pc = "loaded"
    /\ \E server_name \in ServerNames :
          ret' = [NoReturn EXCEPT !.server_name = server_name,
                                  !.container = find_container_for_server(workflow, server_name)]
    /\ pc' = "returned"
    /\ op' = "find_container_for_server"
    /\ UNCHANGED <<strategy, workflow, original_workflow, output>>
    /\ UNCHANGED timer_vars

(* inject_vm_actions_sequential called on the loaded document. *)
InjectSequential ==
    /\ pc = "loaded"
    /\ LET r == inject_vm_actions_sequential(workflow)
       IN /\ workflow' = r.wf
          /\ ret' = [NoReturn EXCEPT !.err = r.err]
    /\ pc' = "returned"
    /\ op' = "inject_vm_actions_sequential"
    /\ UNCHANGED <<strategy, original_workflow, output>>
    /\ UNCHANGED timer_vars

(* inject_vm_actions_parallel called on the loaded document. *)
InjectParallel ==
    /\ pc = "loaded"
    /\ LET r == inject_vm_actions_parallel(workflow)
       IN /\ workflow' = r.wf
          /\ ret' = [NoReturn EXCEPT !.err = r.err]
    /\ pc' = "returned"
    /\ op' = "inject_vm_actions_parallel"
    /\ UNCHANGED <<strategy, original_workflow, output>>
    /\ UNCHANGED timer_vars

(* save_workflow called on the tool: the document in memory is written to *)
(* the output file.  op, strategy and ret describe the last call: this one *)
(* has no strategy argument and returns nothing.  A save_workflow that     *)
(* follows a save_workflow writes the same document again and leaves every *)
(* variable as it is: that step is a stuttering step of Spec, not a step   *)
(* of this action.                                                         *)
save_workflow ==
    /\ pc \in {"loaded", "returned"}
    /\ op # "save_workflow"
    /\ output' = workflow
    /\ ret' = NoReturn
    /\ pc' = "returned"
    /\ op' = "save_workflow"
    /\ strategy' = ""
    /\ UNCHANGED <<workflow, original_workflow>>
    /\ UNCHANGED timer_vars

(***************************************************************************)
(* run(strategy), one call: load_workflow, needs_vm, the selected          *)
(* strategy, save_workflow, return True.  A document that needs no VM is   *)
(* saved as loaded; an exception ends the run with False and nothing       *)
(* saved.                                                                  *)
(***************************************************************************)
RunStrategy(doc, s) ==
    IF s = "parallel" THEN inject_vm_actions_parallel(doc)
    ELSE IF s = "sequential" THEN inject_vm_actions_sequential(doc)
    ELSE [err |-> "UnknownStrategy", wf |-> doc]

RunFromSavedInFinally(doc, s) ==
    /\ strategy' = s
    /\ original_workflow' = doc
    /\ IF ~needs_vm(doc)
       THEN /\ workflow' = doc
            /\ output' = doc
            /\ ret' = [NoReturn EXCEPT !.success = TRUE]
       ELSE LET r == RunStrategy(doc, s)
            IN /\ workflow' = r.wf
               /\ output' = r.wf
               /\ ret' = [NoReturn EXCEPT !.err = r.err, !.success = (r.err = "none")]
    /\ pc' = "returned"

RunFrom(doc, s) ==
    /\ strategy' = s
    /\ original_workflow' = doc
    /\ IF ~needs_vm(doc)
       THEN /\ workflow' = doc
            /\ output' = doc
            /\ ret' = [NoReturn EXCEPT !.success = TRUE]
       ELSE LET r == RunStrategy(doc, s)
            IN /\ workflow' = r.wf
               /\ output' = IF r.err = "none" THEN r.wf ELSE output
               /\ ret' = [NoReturn EXCEPT !.err = r.err, !.success = (r.err = "none")]
    /\ pc' = "returned"

run ==
    /\ pc = "constructed"
    /\ \E s \in Strategies :
         LET From(doc) == RunFrom(doc, s)
         IN Reads(From)
    /\ op' = "run"
    /\ UNCHANGED timer_vars

Next ==
    \/ load_workflow
    \/ FindEntryAction
    \/ FindLeafActions
    \/ FindGithubServer
    \/ FindContainerForServer
    \/ InjectSequential
    \/ InjectParallel
    \/ save_workflow
    \/ run

Spec == Init /\ [][Next]_vars

(***************************************************************************)
(* The timer scripts.                                                      *)
(*                                                                         *)
(* A workflow YAML file is a record                                        *)
(*   form      "absent" (there is no file), "empty" (no text, or comments  *)
(*             only) or "text"                                             *)
(*   key_column, section_column                                            *)
(*             the column the top-level keys (name, on, jobs) stand at,    *)
(*             and the column the lines under the trigger key stand at     *)
(*   entries   the top-level trigger entries in the order of the text,     *)
(*             each [key, section] with key the text of the key as it is   *)
(*             written: on or true (bare), 'on' or 'true' (quoted)         *)
(*   jobs      as below                                                    *)
(* A parsed workflow YAML is a record                                      *)
(*   kind      "dict", or "none" for the None that yaml.safe_load returns  *)
(*             on an empty file                                            *)
(*   triggers  the top-level entries under the keys 'on', True and 'true'  *)
(*             (PyYAML reads a bare `on` as the boolean True; the key      *)
(*             "True" stands for it): a function from the keys present to  *)
(*             the section stored there                                    *)
(*   jobs      [present, list]: the jobs, each with its runs-on label and  *)
(*             with or without an env map                                  *)
(* A section is None (kind "none"), a string (kind "str") or a map (kind   *)
(* "dict") with an optional schedule (a list of cron entries) and an       *)
(* optional workflow_dispatch: absent, None or a map with or without       *)
(* inputs.  An input is [required, default]; required is "true", "false"   *)
(* or "absent".  An env value is its text, and so is a string section:     *)
(* `'||' in current` and, on a string section, `'workflow_dispatch' in     *)
(* on_section` are substring tests.                                        *)
(***************************************************************************)
OnKeys == <<"on", "True", "true">>

(* `sub in text` on two strings. *)
InText(sub, text) ==
    \E i \in 1..(Len(text) - Len(sub) + 1) : SubSeq(text, i, i + Len(sub) - 1) = sub

InputNames == {"OVERWRITTEN", "PAYLOAD_URL"}

NoDefault == [present |-> FALSE, value |-> ""]

Default(v) == [present |-> TRUE, value |-> v]

NoSchedule == [present |-> FALSE, crons |-> <<>>]

Schedule(crons) == [present |-> TRUE, crons |-> crons]

NoInputs == [x \in {} |-> [required |-> "absent", default |-> NoDefault]]

NoDispatch == [kind |-> "absent", has_inputs |-> FALSE, inputs |-> NoInputs]

NoneDispatch == [kind |-> "none", has_inputs |-> FALSE, inputs |-> NoInputs]

Dispatch(has_inputs, inputs) == [kind |-> "dict", has_inputs |-> has_inputs, inputs |-> inputs]

NoneSection ==
    [kind |-> "none", text |-> "", schedule |-> NoSchedule, workflow_dispatch |-> NoDispatch]

StrSection(text) ==
    [kind |-> "str", text |-> text, schedule |-> NoSchedule, workflow_dispatch |-> NoDispatch]

DictSection(schedule, workflow_dispatch) ==
    [kind |-> "dict", text |-> "", schedule |-> schedule,
     workflow_dispatch |-> workflow_dispatch]

(* "${{ github.event.inputs.X }}" *)
EnvDirect(x) == "${{ github.event.inputs." \o x \o " }}"

(* "${{ github.event.inputs.X || 'v' }}" *)
EnvFallback(x, v) == "${{ github.event.inputs." \o x \o " || '" \o v \o "' }}"

HasOr(current) == InText("||", current)

(* The default of an input and the fallback of its env variable. *)
DefaultFor(x, payload_url) == IF x = "OVERWRITTEN" THEN "{}" ELSE payload_url

(* The first of 'on', True, 'true' that is a key of the document: 0 if none. *)
FindOnKey(yaml) ==
    LET found == {i \in 1..Len(OnKeys) : OnKeys[i] \in DOMAIN yaml.triggers}
    IN IF found = {} THEN 0 ELSE CHOOSE i \in found : \A j \in found : i <= j

(* del workflow_yaml[on_key] when on_key is not 'on'; workflow_yaml['on'] = on_section *)
PutBack(triggers, on_key, with_on, on_section) ==
    LET kept == DOMAIN triggers \ (IF on_key = "on" THEN {} ELSE {on_key})
    IN [k \in kept \cup (IF with_on THEN {"on"} ELSE {}) |->
          IF k = "on" /\ with_on THEN on_section ELSE triggers[k]]

MapEnv(jobs, NewValue(_, _)) ==
    [jobs EXCEPT !.list =
        [i \in 1..Len(jobs.list) |->
            [jobs.list[i] EXCEPT !.env =
                [x \in DOMAIN jobs.list[i].env |->
                    IF jobs.list[i].has_env /\ x \in InputNames
                    THEN NewValue(x, jobs.list[i].env[x])
                    ELSE jobs.list[i].env[x]]]]]

(***************************************************************************)
(* set_timer_in_yaml(workflow_yaml, cron_schedule, payload_url):           *)
(* [err, yaml].  err is "exit" for sys.exit(1), "TypeError" for the        *)
(* exception `key in None` or `'inputs' in None` raises, "none" otherwise; *)
(* yaml is the document as the call leaves it.                             *)
(***************************************************************************)
set_timer_in_yaml(yaml, cron_schedule, payload_url) ==
    LET k == FindOnKey(yaml)
        on_key == OnKeys[k]
        read == yaml.triggers[on_key]
        on_section == IF read.kind = "dict" THEN read ELSE DictSection(NoSchedule, NoDispatch)
        wd == on_section.workflow_dispatch
        inputs == [x \in DOMAIN wd.inputs |->
                     IF wd.has_inputs /\ x \in InputNames
                     THEN [wd.inputs[x] EXCEPT !.required = "false",
                                               !.default = Default(DefaultFor(x, payload_url))]
                     ELSE wd.inputs[x]]
        updated == [on_section EXCEPT !.workflow_dispatch.inputs = inputs,
                                      !.schedule = Schedule(<<cron_schedule>>)]
        NewValue(x, current) ==
            IF HasOr(current) THEN current ELSE EnvFallback(x, DefaultFor(x, payload_url))
    IN IF yaml.kind = "none" THEN [err |-> "TypeError", yaml |-> yaml]
       ELSE IF k = 0 THEN [err |-> "exit", yaml |-> yaml]
       ELSE IF read.kind = "none" THEN [err |-> "exit", yaml |-> yaml]
       ELSE IF wd.kind = "none"
       THEN [err |-> "TypeError",
             yaml |-> [yaml EXCEPT
                         !.triggers = PutBack(yaml.triggers, on_key, FALSE, read)]]
       ELSE [err |-> "none",
             yaml |-> [kind |-> "dict",
                       triggers |-> PutBack(yaml.triggers, on_key, TRUE, updated),
                       jobs |-> MapEnv(yaml.jobs, NewValue)]]

(***************************************************************************)
(* unset_timer_in_yaml(workflow_yaml): [err, yaml, had_schedule].  On None *)
(* `key in workflow_yaml` raises TypeError.  On a string section           *)
(* `'workflow_dispatch' in on_section` is a substring test, and indexing   *)
(* the string raises TypeError; the schedule is deleted before that, in    *)
(* the section the document still holds under 'on'.                        *)
(***************************************************************************)
unset_timer_in_yaml(yaml) ==
    LET k == FindOnKey(yaml)
        on_key == OnKeys[k]
        read == yaml.triggers[on_key]
        had_schedule == read.kind = "dict" /\ read.schedule.present
        wd == read.workflow_dispatch
        inputs == [x \in DOMAIN wd.inputs |->
                     IF wd.has_inputs /\ x \in InputNames
                     THEN [wd.inputs[x] EXCEPT !.required = "true", !.default = NoDefault]
                     ELSE wd.inputs[x]]
        updated == [read EXCEPT !.workflow_dispatch.inputs = inputs,
                                !.schedule = NoSchedule]
        NewValue(x, current) == IF HasOr(current) THEN EnvDirect(x) ELSE current
    IN IF yaml.kind = "none"
       THEN [err |-> "TypeError", yaml |-> yaml, had_schedule |-> FALSE]
       ELSE IF k = 0 THEN [err |-> "exit", yaml |-> yaml, had_schedule |-> FALSE]
       ELSE IF read.kind = "none"
       THEN [err |-> "exit", yaml |-> yaml, had_schedule |-> FALSE]
       ELSE IF \/ read.kind = "str" /\ InText("workflow_dispatch", read.text)
               \/ read.kind = "dict" /\ wd.kind = "none"
       THEN [err |-> "TypeError",
             yaml |-> [yaml EXCEPT
                         !.triggers = PutBack(yaml.triggers, on_key, on_key = "on",
                                              [read EXCEPT !.schedule = NoSchedule])],
             had_schedule |-> had_schedule]
       ELSE [err |-> "none",
             yaml |-> [kind |-> "dict",
                       triggers |-> PutBack(yaml.triggers, on_key, TRUE, updated),
                       jobs |-> MapEnv(yaml.jobs, NewValue)],
             had_schedule |-> had_schedule]

(***************************************************************************)
(* The content of the workflow YAML files the timer scripts run on: the    *)
(* manual-only and the scheduled form, and files that lack a part or hold  *)
(* it in another form.                                                     *)
(***************************************************************************)
MaxCalls == 3

Crons == {"0 * * * *", "*/5 * * * *"}

PayloadUrls == {"url1", "url2"}

(* The arguments of the runs of set_workflow_timer.py: <<cron, payload URL>>. *)
TimerArgs == {<<"0 * * * *", "url1">>, <<"0 * * * *", "url2">>, <<"*/5 * * * *", "url2">>}

ManualInput == [required |-> "true", default |-> NoDefault]

ScheduledInput(x, payload_url) ==
    [required |-> "false", default |-> Default(DefaultFor(x, payload_url))]

InputMaps ==
    { [x \in InputNames |-> ManualInput],
      [x \in InputNames |-> ScheduledInput(x, "url1")],
      [x \in {"PAYLOAD_URL"} |-> ManualInput],
      [x \in InputNames |-> [required |-> "absent", default |-> Default("old")]],
      NoInputs }

Dispatches ==
    {NoDispatch, NoneDispatch, Dispatch(FALSE, NoInputs)}
        \cup {Dispatch(TRUE, inputs) : inputs \in InputMaps}

Schedules ==
    {NoSchedule, Schedule(<<"0 * * * *">>), Schedule(<<"0 0 * * *", "0 12 * * *">>)}

Sections ==
    {NoneSection, StrSection("push"), StrSection("workflow_dispatch"),
     StrSection("x_workflow_dispatch_y")}
        \cup {DictSection(s, d) : s \in Schedules, d \in Dispatches}

(* The top-level trigger entries of the files: none, a bare on:, a bare    *)
(* true:, a quoted key, and a quoted 'on' next to a bare on:.              *)
FileEntries(section) ==
    { <<>>,
      <<[key |-> "on", section |-> section]>>,
      <<[key |-> "true", section |-> section]>>,
      <<[key |-> "'on'", section |-> section]>>,
      <<[key |-> "'true'", section |-> section]>>,
      <<[key |-> "'on'", section |-> section],
        [key |-> "on", section |-> StrSection("push")]>> }

Job(env) == [runs_on |-> "ubuntu-latest", has_env |-> TRUE, env |-> env]

JobWithoutEnv == [runs_on |-> "ubuntu-latest", has_env |-> FALSE, env |-> [x \in {} |-> ""]]

EnvMaps ==
    { [x \in InputNames |-> EnvDirect(x)],
      [x \in InputNames |-> EnvFallback(x, DefaultFor(x, "url1"))],
      [x \in InputNames |-> "${{ inputs." \o x \o " }}"],
      [x \in {"PAYLOAD_URL"} |-> "${{ inputs." \o x \o " || 'old' }}"],
      [x \in {"PAYLOAD_URL"} |-> "${{ github.event.inputs." \o x \o "||'old' }}"],
      [x \in {"PAYLOAD_URL"} |-> "a ||| b"] }

JobLists ==
    {<<>>, <<JobWithoutEnv>>}
        \cup {<<Job(env)>> : env \in EnvMaps}
        \cup {<<JobWithoutEnv, Job([x \in InputNames |-> EnvDirect(x)])>>}

JobsEntries ==
    {[present |-> FALSE, list |-> <<>>]} \cup {[present |-> TRUE, list |-> l] : l \in JobLists}

(***************************************************************************)
(* Registration (scripts/register_set_unset_workflow.py).                  *)
(*                                                                         *)
(* textwrap.dedent removes the margin all lines of a text have in common.  *)
(* Of the lines the model keeps, the margin is the smaller of the two      *)
(* columns (the lines of the jobs stand further right than the keys).      *)
(***************************************************************************)
dedent(file) ==
    LET margin == IF file.key_column < file.section_column
                  THEN file.key_column
                  ELSE file.section_column
    IN [file EXCEPT !.key_column = @ - margin, !.section_column = @ - margin]

(* The `on` section of the generated text: with the schedule and the       *)
(* defaults when a cron schedule is given ("" stands for None), manual     *)
(* otherwise.                                                              *)
GeneratedSection(cron_schedule, payload_url) ==
    IF cron_schedule # ""
    THEN DictSection(Schedule(<<cron_schedule>>),
                     Dispatch(TRUE, [x \in InputNames |-> ScheduledInput(x, payload_url)]))
    ELSE DictSection(NoSchedule, Dispatch(TRUE, [x \in InputNames |-> ManualInput]))

(* The OVERWRITTEN and PAYLOAD_URL lines of the env map of the generated   *)
(* job; the secret imports before them are left out.                       *)
GeneratedEnv(cron_schedule, payload_url) ==
    IF cron_schedule # ""
    THEN [x \in InputNames |-> EnvFallback(x, DefaultFor(x, payload_url))]
    ELSE [x \in InputNames |-> EnvDirect(x)]

(***************************************************************************)
(* generate_serverless_yaml, generate_vm_yaml: the template has name:,     *)
(* on: and jobs: at column 8; on_section is put in as it is, so the lines  *)
(* after its first (schedule:, workflow_dispatch:) stand at column 2.  The *)
(* dedent takes 2 columns away: the keys stand at column 6 and the lines   *)
(* under on: at column 0.                                                  *)
(***************************************************************************)
GeneratedText(cron_schedule, payload_url, runs_on) ==
    dedent([form |-> "text", key_column |-> 8, section_column |-> 2,
            entries |-> <<[key |-> "on",
                           section |-> GeneratedSection(cron_schedule, payload_url)]>>,
            jobs |-> [present |-> TRUE,
                      list |-> <<[runs_on |-> runs_on, has_env |-> TRUE,
                                  env |-> GeneratedEnv(cron_schedule, payload_url)]>>]])

generate_serverless_yaml(cron_schedule, payload_url) ==
    GeneratedText(cron_schedule, payload_url, "ubuntu-latest")

generate_vm_yaml(cron_schedule, payload_url) ==
    GeneratedText(cron_schedule, payload_url, "self-hosted")

(* deploy_to_github, for the entry action: the content of its workflow     *)
(* file, created or updated with the generated text as it is.             *)
deploy_to_github(cron_schedule, payload_url, requires_vm) ==
    IF requires_vm
    THEN generate_vm_yaml(cron_schedule, payload_url)
    ELSE generate_serverless_yaml(cron_schedule, payload_url)

(* The payload URL main of the registration builds for a schedule. *)
RawUrl(payload_url) == "https://raw.githubusercontent.com/" \o payload_url

(* The arguments of a registration: --cron ("" when not given) and         *)
(* --unset-timer; parse_arguments exits when both are given.               *)
RegisterArgs ==
    {<<cron, unset_timer>> \in (Crons \cup {""}) \X BOOLEAN : ~(cron # "" /\ unset_timer)}

(* main of the registration, to the text it leaves in the workflow file of *)
(* the entry action: the schedule is taken from --cron unless              *)
(* --unset-timer is given, and the payload URL is built for a schedule     *)
(* only (url stands for repository/branch/path).                           *)
register_main(args, url, requires_vm) ==
    LET cron_to_use == IF args[2] THEN "" ELSE args[1]
        payload_url == IF cron_to_use # "" THEN RawUrl(url) ELSE ""
    IN deploy_to_github(cron_to_use, payload_url, requires_vm)

(***************************************************************************)
(* check_workflow_registered: whether the file exists.                     *)
(***************************************************************************)
check_workflow_registered(file) == file.form # "absent"

(***************************************************************************)
(* read_workflow_yaml: yaml.safe_load of the file, [err, yaml].  A text    *)
(* whose lines under the trigger key stand left of the key does not parse  *)
(* (the mapping of the keys has ended where a line stands left of it, and  *)
(* a second node is not allowed): yaml.YAMLError is caught and the process *)
(* exits, err "exit"; so it is when there is no file (main has left in     *)
(* check_workflow_registered before it gets there).  An                    *)
(* empty file is read as None.  Else the text is read as a map: a bare on  *)
(* or true is the boolean True (the key "True"), a quoted key is the       *)
(* string; of two entries with the same key the later one is kept.  The    *)
(* values the model holds (strings, booleans, lists, maps) are read as     *)
(* they were written.                                                      *)
(***************************************************************************)
ParsedKey(text) ==
    IF text \in {"on", "true"} THEN "True"
    ELSE IF text = "'on'" THEN "on"
    ELSE "true"

NoneYaml == [kind |-> "none", triggers |-> [k \in {} |-> ""],
             jobs |-> [present |-> FALSE, list |-> <<>>]]

read_workflow_yaml(file) ==
    LET n == Len(file.entries)
        keys == {ParsedKey(file.entries[i].key) : i \in 1..n}
        last(k) == CHOOSE i \in 1..n :
                      /\ ParsedKey(file.entries[i].key) = k
                      /\ \A j \in (i + 1)..n : ParsedKey(file.entries[j].key) # k
    IN IF file.form = "absent" THEN [err |-> "exit", yaml |-> NoYaml]
       ELSE IF file.form = "empty" THEN [err |-> "none", yaml |-> NoneYaml]
       ELSE IF file.section_column < file.key_column THEN [err |-> "exit", yaml |-> NoYaml]
       ELSE [err |-> "none",
             yaml |-> [kind |-> "dict",
                       triggers |-> [k \in keys |-> file.entries[last(k)].section],
                       jobs |-> file.jobs]]

(***************************************************************************)
(* write_workflow_yaml: the entries are dumped with 'on' first and the     *)
(* other keys after the jobs; yaml.dump writes the string keys 'on' and    *)
(* 'true' quoted and the boolean True as true, the top-level keys at       *)
(* column 0 and the lines under them at column 2.  Then the first `true:`  *)
(* of the text, and then the first `'on':`, is replaced by `on:`.          *)
(***************************************************************************)
DumpedKey(k) ==
    IF k = "on" THEN "'on'"
    ELSE IF k = "True" THEN "true"
    ELSE "'true'"

(* text.replace(old + ':', new + ':', 1) on the keys of the entries. *)
ReplaceFirstKey(entries, old, new) ==
    LET at == {i \in 1..Len(entries) : entries[i].key = old}
    IN IF at = {} THEN entries
       ELSE LET i == CHOOSE i \in at : \A j \in at : i <= j
            IN [entries EXCEPT ![i].key = new]

write_workflow_yaml(yaml) ==
    LET present == {i \in 1..Len(OnKeys) : OnKeys[i] \in DOMAIN yaml.triggers}
        nth(j) == CHOOSE i \in present : Cardinality({h \in present : h < i}) = j - 1
        dumped == [j \in 1..Cardinality(present) |->
                     [key |-> DumpedKey(OnKeys[nth(j)]),
                      section |-> yaml.triggers[OnKeys[nth(j)]]]]
    IN [form |-> "text", key_column |-> 0, section_column |-> 2,
        entries |-> ReplaceFirstKey(ReplaceFirstKey(dumped, "true", "on"), "'on'", "on"),
        jobs |-> yaml.jobs]

(***************************************************************************)
(* The workflow file the scripts find: none, an empty one, a text that     *)
(* parses (keys at column 0, as yaml.dump and a hand-written file have     *)
(* them), or a text as a registration has generated it.                    *)
(***************************************************************************)
EmptyFile == [NoFile EXCEPT !.form = "empty"]

ParsingFile(entries, jobs) ==
    [form |-> "text", key_column |-> 0, section_column |-> 2,
     entries |-> entries, jobs |-> jobs]

(* The sections every jobs entry is combined with, and the jobs entries    *)
(* every section is combined with.                                         *)
CommonSections ==
    {NoneSection, StrSection("x_workflow_dispatch_y"),
     DictSection(NoSchedule, Dispatch(TRUE, [x \in InputNames |-> ManualInput])),
     DictSection(Schedule(<<"0 * * * *">>),
                 Dispatch(TRUE, [x \in InputNames |-> ScheduledInput(x, "url1")]))}

CommonJobs ==
    {[present |-> FALSE, list |-> <<>>],
     [present |-> TRUE, list |-> <<JobWithoutEnv, Job([x \in InputNames |-> EnvDirect(x)])>>],
     [present |-> TRUE,
      list |-> <<Job([x \in InputNames |-> EnvFallback(x, DefaultFor(x, "url1"))])>>]}

ParsingFiles ==
    {ParsingFile(entries, jobs) :
        entries \in UNION {FileEntries(section) : section \in Sections},
        jobs \in CommonJobs}
    \cup
    {ParsingFile(entries, jobs) :
        entries \in UNION {FileEntries(section) : section \in CommonSections},
        jobs \in JobsEntries}

GeneratedFiles ==
    {register_main(args, url, requires_vm) :
        args \in RegisterArgs, url \in PayloadUrls, requires_vm \in BOOLEAN}

TimerPcs == {"checkout", "registered", "exited"}

TimerInit ==
    /\ pc = "checkout"
    /\ op = ""
    /\ strategy = ""
    /\ workflow = NoDocument
    /\ original_workflow = NoDocument
    /\ output = NoDocument
    /\ ret = NoReturn
    /\ yaml_file \in {NoFile, EmptyFile} \cup ParsingFiles \cup GeneratedFiles
    /\ registered_file = yaml_file
    /\ workflow_yaml = NoYaml
    /\ calls = <<>>

(***************************************************************************)
(* One run of register_set_unset_workflow.py: deploy_to_github creates or  *)
(* replaces the workflow file of the entry action with the generated text. *)
(* The runs of the timer scripts are counted anew from a registration.     *)
(***************************************************************************)
RegisterWorkflow ==
    /\ pc \in TimerPcs
    /\ Len(calls) < MaxCalls
    /\ \E args \in RegisterArgs : \E url \in PayloadUrls : \E requires_vm \in BOOLEAN :
         yaml_file' = register_main(args, url, requires_vm)
    /\ registered_file' = yaml_file'
    /\ workflow_yaml' = NoYaml
    /\ calls' = <<>>
    /\ pc' = "registered"
    /\ op' = "deploy_to_github"
    /\ UNCHANGED tool_vars

(***************************************************************************)
(* One run of set_workflow_timer.py: main checks that the file exists,     *)
(* reads it, calls set_timer_in_yaml and writes the document back.  When a *)
(* step exits or raises, the process ends and the file is left as it was;  *)
(* step is the function the run ended in ("main" when it ran through).     *)
(***************************************************************************)
SetTimer ==
    /\ pc \in TimerPcs
    /\ Len(calls) < MaxCalls
    /\ \E cron_schedule \in Crons : \E payload_url \in PayloadUrls :
         LET read == read_workflow_yaml(yaml_file)
             r == set_timer_in_yaml(read.yaml, cron_schedule, payload_url)
             step == IF ~check_workflow_registered(yaml_file)
                     THEN "check_workflow_registered"
                     ELSE IF read.err # "none" THEN "read_workflow_yaml"
                     ELSE IF r.err # "none" THEN "set_timer_in_yaml"
                     ELSE "main"
             called == step \in {"set_timer_in_yaml", "main"}
         IN /\ <<cron_schedule, payload_url>> \in TimerArgs
            /\ workflow_yaml' = IF called THEN r.yaml ELSE NoYaml
            /\ yaml_file' = IF step = "main" THEN write_workflow_yaml(r.yaml) ELSE yaml_file
            /\ calls' = Append(calls, [op |-> "set_timer_in_yaml", step |-> step,
                                       err |-> IF called THEN r.err ELSE "exit",
                                       cron_schedule |-> cron_schedule,
                                       payload_url |-> payload_url,
                                       had_schedule |-> FALSE])
    /\ pc' = "exited"
    /\ op' = "set_timer_in_yaml"
    /\ UNCHANGED registered_file
    /\ UNCHANGED tool_vars

(***************************************************************************)
(* One run of unset_workflow_timer.py: main checks that the file exists,   *)
(* reads it, calls unset_timer_in_yaml and writes the document back only   *)
(* when the call reports that a schedule was removed.                      *)
(***************************************************************************)
UnsetTimer ==
    /\ pc \in TimerPcs
    /\ Len(calls) < MaxCalls
    /\ LET read == read_workflow_yaml(yaml_file)
           r == unset_timer_in_yaml(read.yaml)
           step == IF ~check_workflow_registered(yaml_file)
                   THEN "check_workflow_registered"
                   ELSE IF read.err # "none" THEN "read_workflow_yaml"
                   ELSE IF r.err # "none" THEN "unset_timer_in_yaml"
                   ELSE "main"
           called == step \in {"unset_timer_in_yaml", "main"}
       IN /\ workflow_yaml' = IF called THEN r.yaml ELSE NoYaml
          /\ yaml_file' = IF step = "main" /\ r.had_schedule
                          THEN write_workflow_yaml(r.yaml)
                          ELSE yaml_file
          /\ calls' = Append(calls, [op |-> "unset_timer_in_yaml", step |-> step,
                                     err |-> IF called THEN r.err ELSE "exit",
                                     cron_schedule |-> "", payload_url |-> "",
                                     had_schedule |-> called /\ r.had_schedule])
    /\ pc' = "exited"
    /\ op' = "unset_timer_in_yaml"
    /\ UNCHANGED registered_file
    /\ UNCHANGED tool_vars

TimerNext ==
    \/ RegisterWorkflow
    \/ SetTimer
    \/ UnsetTimer

TimerSpec == TimerInit /\ [][TimerNext]_vars

(***************************************************************************)
(* Notions the properties are stated in.                                   *)
(***************************************************************************)
(* The normalized successor set of an InvokeNext value, whatever its shape. *)
SuccessorSet(inv) ==
    SeqToSet(inv.items) \cup UNION {SeqToSet(inv.vals[i].items) : i \in 1..Len(inv.vals)}

NameSet(action_list) == {action_list[i].name : i \in 1..Len(action_list)}

ActionByName(action_list, n) ==
    action_list[CHOOSE i \in 1..Len(action_list) : action_list[i].name = n]

Predecessors(action_list, n) ==
    {action_list[i].name : i \in {j \in 1..Len(action_list) :
                                     n \in SuccessorSet(action_list[j].InvokeNext)}}

ZeroPredecessor(action_list) ==
    {n \in NameSet(action_list) : Predecessors(action_list, n) = {}}

NormalLeaves(action_list) ==
    {n \in NameSet(action_list) :
        SuccessorSet(ActionByName(action_list, n).InvokeNext) = {}}

EmptyInvokeNext(inv) ==
    \/ inv.shape = "absent"
    \/ inv.shape = "list" /\ Len(inv.items) = 0
    \/ inv.shape = "dict" /\ Len(inv.keys) = 0
    \/ inv.shape = "str" /\ inv.items = <<"">>

VMNames(action_list) ==
    {action_list[i].name : i \in {j \in 1..Len(action_list) : action_list[j].RequiresVM}}

HasGitHubServer(wf) ==
    /\ wf.ComputeServers.present
    /\ \E i \in 1..Len(wf.ComputeServers.list) :
          wf.ComputeServers.list[i].FaaSType = "GitHubActions"

ReachableFrom(action_list, n) ==
    LET Succ(m) == IF m \in NameSet(action_list)
                   THEN SuccessorSet(ActionByName(action_list, m).InvokeNext)
                   ELSE {}
        R[k \in 0..Len(action_list)] ==
            IF k = 0 THEN Succ(n)
            ELSE LET prev == R[k - 1]
                 IN prev \cup UNION {Succ(m) : m \in prev}
    IN R[Len(action_list)]

Acyclic(action_list) ==
    \A n \in NameSet(action_list) : n \notin ReachableFrom(action_list, n)

(* The strategy was called on the loaded document: directly, or by run. *)
CalledSequential ==
    \/ op = "inject_vm_actions_sequential"
    \/ op = "run" /\ strategy = "sequential" /\ VMNames(original_workflow.ActionList) # {}

CalledParallel ==
    \/ op = "inject_vm_actions_parallel"
    \/ op = "run" /\ strategy = "parallel" /\ VMNames(original_workflow.ActionList) # {}

Called == CalledSequential \/ CalledParallel

HasReservedName(action_list) ==
    InActionList(action_list, vm_start_name) \/ InActionList(action_list, vm_stop_name)

(***************************************************************************)
(* C1.  Poll-gate completeness: after a successful InjectParallel, for     *)
(* every VM-requiring action V of the input, every action that named V as  *)
(* a successor (in a single target, a list or a condition map) no longer   *)
(* names V and names faasr-vm-poll-V instead, and the only action of the   *)
(* final graph whose successors contain V is faasr-vm-poll-V.              *)
(***************************************************************************)
PollGateCompleteness ==
    LET before == original_workflow.ActionList
        after == workflow.ActionList
    IN (CalledParallel /\ ret.err = "none") =>
         \A V \in VMNames(before) :
            /\ \A A \in Predecessors(before, V) :
                  poll_action_name(V) \in SuccessorSet(ActionByName(after, A).InvokeNext)
            /\ Predecessors(after, V) = {poll_action_name(V)}

(***************************************************************************)
(* C2.  Conditional edges preserved: after a successful InjectParallel, an *)
(* action whose successors were a condition map with a VM-requiring target *)
(* still has a condition map with the same keys in the same order; under   *)
(* every key the VM-requiring targets are replaced by their poll actions   *)
(* and the other targets are unchanged.                                    *)
(***************************************************************************)
Gated(targets, vm_names) ==
    [i \in 1..Len(targets) |->
        IF targets[i] \in vm_names THEN poll_action_name(targets[i]) ELSE targets[i]]

ConditionalEdgesPreserved ==
    LET before == original_workflow.ActionList
        after == workflow.ActionList
    IN (CalledParallel /\ ret.err = "none") =>
         \A i \in 1..Len(before) :
            LET old == before[i].InvokeNext
                new == ActionByName(after, before[i].name).InvokeNext
            IN (old.shape = "dict" /\ SuccessorSet(old) \cap VMNames(before) # {}) =>
                 /\ new.shape = "dict"
                 /\ new.keys = old.keys
                 /\ \A k \in 1..Len(old.keys) :
                       new.vals[k].items = Gated(old.vals[k].items, VMNames(before))

(***************************************************************************)
(* C3.  Single entry/terminal invariant: for an acyclic input with exactly *)
(* one zero-predecessor action and at least one VM-requiring action, after *)
(* a successful InjectSequential or InjectParallel the only action without *)
(* predecessors is faasr-vm-start, every action that was a leaf of the     *)
(* input has successors exactly [faasr-vm-stop], and faasr-vm-stop has no  *)
(* successors.                                                             *)
(***************************************************************************)
SingleEntryTerminal ==
    LET before == original_workflow.ActionList
        after == workflow.ActionList
    IN (/\ Called
        /\ ret.err = "none"
        /\ Acyclic(before)
        /\ Cardinality(ZeroPredecessor(before)) = 1
        /\ VMNames(before) # {}) =>
         /\ ZeroPredecessor(after) = {vm_start_name}
         /\ \A L \in NormalLeaves(before) :
               ActionByName(after, L).InvokeNext = ListNext(<<vm_stop_name>>)
         /\ InActionList(after, vm_stop_name)
         /\ SuccessorSet(ActionByName(after, vm_stop_name).InvokeNext) = {}

(***************************************************************************)
(* C4.  Conflict rejection.                                                *)
(* As claimed: a call of either strategy on an input that holds an action  *)
(* named faasr-vm-start or faasr-vm-stop fails with the name-conflict      *)
(* error and leaves the document as it was.                                *)
(***************************************************************************)
ConflictRejectionAlwaysNameConflict ==
    (Called /\ HasReservedName(original_workflow.ActionList)) =>
       /\ ret.err = "NameConflict"
       /\ workflow = original_workflow

(***************************************************************************)
(* C4, amended.  A call of either strategy on an input that holds an       *)
(* action named faasr-vm-start or faasr-vm-stop fails and leaves the       *)
(* document as it was; the error is the name-conflict error whenever the   *)
(* checks made before the name check pass: VMConfig present, exactly one   *)
(* zero-predecessor action, an action with an empty InvokeNext, a          *)
(* GitHubActions server.                                                   *)
(***************************************************************************)
EarlierChecksPass(wf) ==
    /\ wf.VMConfig
    /\ Cardinality(ZeroPredecessor(wf.ActionList)) = 1
    /\ \E i \in 1..Len(wf.ActionList) : EmptyInvokeNext(wf.ActionList[i].InvokeNext)
    /\ HasGitHubServer(wf)

ConflictRejection ==
    (Called /\ HasReservedName(original_workflow.ActionList)) =>
       /\ ret.err # "none"
       /\ workflow = original_workflow
       /\ EarlierChecksPass(original_workflow) => ret.err = "NameConflict"

ConflictRejectionWitness ==
    /\ Called
    /\ InActionList(original_workflow.ActionList, vm_stop_name)
    /\ ret.err = "NameConflict"
    /\ DOMAIN original_workflow.ActionContainers.map # {}
    /\ workflow = original_workflow

(***************************************************************************)
(* C5.  No partial application: whenever InjectParallel fails, the         *)
(* document is as it was before the call: no start, stop or poll action    *)
(* added, no successor redirected, FunctionInvoke unchanged.               *)
(***************************************************************************)
NoPartialApplication ==
    (CalledParallel /\ ret.err # "none") =>
       /\ ActionNames(workflow.ActionList) = ActionNames(original_workflow.ActionList)
       /\ \A i \in 1..Len(original_workflow.ActionList) :
             workflow.ActionList[i].InvokeNext = original_workflow.ActionList[i].InvokeNext
       /\ workflow.FunctionInvoke = original_workflow.FunctionInvoke

(***************************************************************************)
(* C6.  Structural errors precede every mutation.                          *)
(* As claimed: a call of either strategy on an input with no               *)
(* zero-predecessor action, several of them, no leaf or no GitHubActions   *)
(* server fails with the error of one of the defects the input has, and    *)
(* leaves the document as it was.                                          *)
(***************************************************************************)
DefectErrors(wf) ==
    (IF ZeroPredecessor(wf.ActionList) = {} THEN {"NoEntryFound"} ELSE {})
    \cup (IF Cardinality(ZeroPredecessor(wf.ActionList)) > 1 THEN {"AmbiguousEntry"} ELSE {})
    \cup (IF NormalLeaves(wf.ActionList) = {} THEN {"NoLeavesFound"} ELSE {})
    \cup (IF ~HasGitHubServer(wf) THEN {"NoComputeServers", "NoHostCapableServer"} ELSE {})

StructuralErrorsCorresponding ==
    (Called /\ DefectErrors(original_workflow) # {}) =>
       /\ ret.err \in DefectErrors(original_workflow)
       /\ workflow = original_workflow

(***************************************************************************)
(* C6, amended.  A call of either strategy on such an input fails before   *)
(* any synthetic action is created and leaves the document as it was; the  *)
(* error is that of the first check that fails, in the order: VMConfig     *)
(* present, exactly one zero-predecessor action, an action with an empty   *)
(* InvokeNext, a GitHubActions server.                                     *)
(***************************************************************************)
FirstFailingCheck(wf) ==
    IF ~wf.VMConfig THEN {"VMConfigRequired"}
    ELSE IF ZeroPredecessor(wf.ActionList) = {} THEN {"NoEntryFound"}
    ELSE IF Cardinality(ZeroPredecessor(wf.ActionList)) > 1 THEN {"AmbiguousEntry"}
    ELSE IF \A i \in 1..Len(wf.ActionList) : ~EmptyInvokeNext(wf.ActionList[i].InvokeNext)
         THEN {"NoLeavesFound"}
    ELSE IF ~HasGitHubServer(wf) THEN {"NoComputeServers", "NoHostCapableServer"}
    ELSE {}

StructuralErrorsPrecedeMutation ==
    (Called /\ DefectErrors(original_workflow) # {}) =>
       /\ ret.err \in FirstFailingCheck(original_workflow)
       /\ workflow = original_workflow
       /\ \A n \in NameSet(workflow.ActionList) : ~ActionByName(workflow.ActionList, n).builtin

StructuralErrorsWitness ==
    /\ CalledParallel
    /\ original_workflow.VMConfig
    /\ VMNames(original_workflow.ActionList) # {}
    /\ Cardinality(ZeroPredecessor(original_workflow.ActionList)) = 1
    /\ NormalLeaves(original_workflow.ActionList) # {}
    /\ ~HasGitHubServer(original_workflow)
    /\ ret.err = "NoHostCapableServer"
    /\ workflow = original_workflow

(***************************************************************************)
(* C7.  FindEntryPoint returns the action no action names as a successor   *)
(* when there is exactly one, fails with NoEntryFound when there is none   *)
(* (the empty action set included) and with AmbiguousEntry when there are  *)
(* several, whatever the shapes of the successors.                         *)
(***************************************************************************)
FindEntryPointCorrect ==
    LET Z == ZeroPredecessor(workflow.ActionList)
    IN op = "find_entry_action" =>
         /\ Cardinality(Z) = 1 => ret.err = "none" /\ ret.name \in Z
         /\ Cardinality(Z) = 0 => ret.err = "NoEntryFound"
         /\ Cardinality(Z) > 1 => ret.err = "AmbiguousEntry"

FindEntryPointWitness ==
    /\ op = "find_entry_action"
    /\ ret.err = "none"
    /\ ret.name = "b"
    /\ \E i \in 1..Len(workflow.ActionList) :
          LET inv == workflow.ActionList[i].InvokeNext
          IN /\ inv.shape = "dict"
             /\ Len(inv.keys) = 2
             /\ \E k \in 1..2 : inv.vals[k].isList /\ inv.vals[k].items # <<>>

(***************************************************************************)
(* C8.  FindLeaves returns exactly the actions whose normalized successor  *)
(* set is empty, a condition map whose branches are all empty included,    *)
(* and fails with NoLeavesFound when there is no such action.              *)
(***************************************************************************)
FindLeavesNormalized ==
    LET L == NormalLeaves(workflow.ActionList)
    IN op = "find_leaf_actions" =>
         /\ L = {} => ret.err = "NoLeavesFound"
         /\ L # {} => ret.err = "none" /\ SeqToSet(ret.names) = L

(***************************************************************************)
(* C9.  Idempotent no-op: a run on a document in which no action has       *)
(* RequiresVM true succeeds, under any strategy, and the document in       *)
(* memory and the document saved are the document that was loaded.         *)
(***************************************************************************)
IdempotentNoOp ==
    (op = "run" /\ VMNames(original_workflow.ActionList) = {}) =>
       /\ pc = "returned"
       /\ ret.success
       /\ ret.err = "none"
       /\ workflow = original_workflow
       /\ output = original_workflow

IdempotentNoOpWitness ==
    /\ op = "run"
    /\ strategy = "sequential"
    /\ VMNames(original_workflow.ActionList) = {}
    /\ Len(original_workflow.ActionList) = 3
    /\ original_workflow.VMConfig
    /\ Cardinality(ZeroPredecessor(original_workflow.ActionList)) = 1
    /\ NormalLeaves(original_workflow.ActionList) # {}
    /\ HasGitHubServer(original_workflow)
    /\ output = original_workflow

(***************************************************************************)
(* C10.  Precondition error.                                               *)
(* As claimed: when VMConfig is absent while some action has RequiresVM    *)
(* true, or VMConfig is present while none has, injection under either     *)
(* strategy reports the precondition error and leaves the document as it   *)
(* was.                                                                    *)
(***************************************************************************)
InjectionAsked ==
    \/ op \in {"inject_vm_actions_sequential", "inject_vm_actions_parallel"}
    \/ op = "run" /\ strategy \in {"sequential", "parallel"}

PreconditionErrorBothWays ==
    (/\ InjectionAsked
     /\ original_workflow.VMConfig = (VMNames(original_workflow.ActionList) = {})) =>
       /\ ret.err = "VMConfigRequired"
       /\ workflow = original_workflow

(***************************************************************************)
(* C10, amended.  When VMConfig is absent while some action has RequiresVM *)
(* true, injection under either strategy reports the precondition error,   *)
(* leaves the document as it was and, in a run, saves nothing and returns  *)
(* False.  When VMConfig is present while no action has RequiresVM true, a *)
(* run reports no error: it saves the document unchanged and returns True. *)
(***************************************************************************)
PreconditionError ==
    /\ (/\ InjectionAsked
        /\ ~original_workflow.VMConfig
        /\ VMNames(original_workflow.ActionList) # {}) =>
          /\ ret.err = "VMConfigRequired"
          /\ workflow = original_workflow
          /\ op = "run" => pc = "returned" /\ ~ret.success /\ output = NoDocument
    /\ (/\ op = "run"
        /\ original_workflow.VMConfig
        /\ VMNames(original_workflow.ActionList) = {}) =>
          /\ ret.err = "none"
          /\ ret.success
          /\ workflow = original_workflow
          /\ output = original_workflow

PreconditionErrorWitness ==
    /\ op = "run"
    /\ strategy = "parallel"
    /\ ~original_workflow.VMConfig
    /\ VMNames(original_workflow.ActionList) # {}
    /\ Cardinality(ZeroPredecessor(original_workflow.ActionList)) = 1
    /\ HasGitHubServer(original_workflow)
    /\ ret.err = "VMConfigRequired"
    /\ ~ret.success

(***************************************************************************)
(* C11.  Chained VM actions: for an input chain entry -> A -> B -> leaf in *)
(* which A and B are the VM-requiring actions, a successful InjectParallel *)
(* yields start -> entry -> poll-A -> A -> poll-B -> B -> leaf -> stop:    *)
(* exactly four synthetic actions are added (in general two and one per    *)
(* VM-requiring action), and of the original edges only the one into A,    *)
(* the one into B and the leaf's are rewritten.                            *)
(***************************************************************************)
IsChain(action_list) ==
    /\ Len(action_list) >= 2
    /\ \A i \in 1..Len(action_list) :
          SuccessorSet(action_list[i].InvokeNext) =
             (IF i = Len(action_list) THEN {} ELSE {action_list[i + 1].name})
    /\ \A i, j \in 1..Len(action_list) :
          action_list[i].name = action_list[j].name => i = j

Successors(action_list, n) == SuccessorSet(ActionByName(action_list, n).InvokeNext)

ChainedVMActions ==
    LET before == original_workflow.ActionList
        after == workflow.ActionList
    IN (CalledParallel /\ ret.err = "none") =>
         /\ Len(after) = Len(before) + 2 + Cardinality(VMNames(before))
         /\ (/\ IsChain(before)
             /\ Len(before) = 4
             /\ VMNames(before) = {before[2].name, before[3].name}) =>
               LET entry == before[1].name
                   A == before[2].name
                   B == before[3].name
                   leaf == before[4].name
               IN /\ NameSet(after) = NameSet(before) \cup
                        {vm_start_name, vm_stop_name,
                         poll_action_name(A), poll_action_name(B)}
                  /\ Successors(after, vm_start_name) = {entry}
                  /\ Successors(after, entry) = {poll_action_name(A)}
                  /\ Successors(after, poll_action_name(A)) = {A}
                  /\ Successors(after, A) = {poll_action_name(B)}
                  /\ Successors(after, poll_action_name(B)) = {B}
                  /\ ActionByName(after, B).InvokeNext = before[3].InvokeNext
                  /\ Successors(after, leaf) = {vm_stop_name}
                  /\ Successors(after, vm_stop_name) = {}

(***************************************************************************)
(* C12.  Sequential frame: after a successful InjectSequential every       *)
(* original action that was not a leaf has the InvokeNext it had in the    *)
(* input (same shape, same targets, same order), and the original edges    *)
(* that differ are the leaves' successor sets, each now [faasr-vm-stop].   *)
(***************************************************************************)
SequentialFrame ==
    LET before == original_workflow.ActionList
        after == workflow.ActionList
    IN (CalledSequential /\ ret.err = "none") =>
         \A i \in 1..Len(before) :
            /\ after[i].name = before[i].name
            /\ after[i].InvokeNext =
                 (IF before[i].name \in NormalLeaves(before)
                  THEN ListNext(<<vm_stop_name>>)
                  ELSE before[i].InvokeNext)

(***************************************************************************)
(* C13.  One poll gate per VM-requiring action: after a successful         *)
(* InjectParallel, for every VM-requiring action V of the input there is   *)
(* exactly one action named faasr-vm-poll-V, it has RequiresVM false and   *)
(* InvokeNext exactly [V], and the number of poll actions is the number of *)
(* VM-requiring actions, whatever the in-degree of V.                      *)
(***************************************************************************)
PollActions(action_list) ==
    {i \in 1..Len(action_list) :
        action_list[i].builtin /\ action_list[i].FunctionName = "vm_poll"}

OnePollGatePerVMAction ==
    LET before == original_workflow.ActionList
        after == workflow.ActionList
    IN (CalledParallel /\ ret.err = "none") =>
         /\ \A V \in VMNames(before) :
               \E i \in PollActions(after) :
                  /\ after[i].name = poll_action_name(V)
                  /\ ~after[i].RequiresVM
                  /\ after[i].InvokeNext = ListNext(<<V>>)
                  /\ \A j \in 1..Len(after) : after[j].name = after[i].name => j = i
         /\ Cardinality(PollActions(after)) = Cardinality(VMNames(before))

OnePollGatePerVMActionWitness ==
    LET before == original_workflow.ActionList
    IN /\ CalledParallel
       /\ ret.err = "none"
       /\ \E V \in VMNames(before) : Predecessors(before, V) = {}
       /\ \E V \in VMNames(before) : Cardinality(Predecessors(before, V)) = 1
       /\ \E V \in VMNames(before) : Cardinality(Predecessors(before, V)) >= 2
       /\ Cardinality(PollActions(workflow.ActionList)) = 3

(***************************************************************************)
(* C14.  Non-VM actions are not gated: after a successful InjectParallel   *)
(* every original action names the non-VM-requiring targets it named in    *)
(* the input (and no others), the successor of a poll action is never a    *)
(* non-VM-requiring action, and, the input being acyclic, a                *)
(* non-VM-requiring action with no VM-requiring ancestor is reached from   *)
(* faasr-vm-start along a path that holds no poll action.                  *)
(***************************************************************************)
Ancestors(action_list, n) == {m \in NameSet(action_list) : n \in ReachableFrom(action_list, m)}

PollNames(action_list) == {action_list[i].name : i \in PollActions(action_list)}

(* The action list without its poll actions' edges. *)
WithoutPolls(action_list) ==
    [i \in 1..Len(action_list) |->
        IF i \in PollActions(action_list)
        THEN [action_list[i] EXCEPT !.InvokeNext = ListNext(<<>>)]
        ELSE action_list[i]]

NonVMNotGated ==
    LET before == original_workflow.ActionList
        after == workflow.ActionList
        NonVM == NameSet(before) \ VMNames(before)
    IN (CalledParallel /\ ret.err = "none") =>
         /\ \A i \in 1..Len(before) :
               SuccessorSet(after[i].InvokeNext) \cap NonVM =
                  SuccessorSet(before[i].InvokeNext) \cap NonVM
         /\ \A p \in PollNames(after) : Successors(after, p) \cap NonVM = {}
         /\ Acyclic(before) =>
               LET below_vm == UNION {ReachableFrom(before, V) : V \in VMNames(before)}
                   ungated == ReachableFrom(WithoutPolls(after), vm_start_name)
               IN \A n \in NonVM \ below_vm : n \in ungated

NonVMNotGatedWitness ==
    LET before == original_workflow.ActionList
        after == workflow.ActionList
    IN /\ CalledParallel
       /\ ret.err = "none"
       /\ Acyclic(before)
       /\ \E i \in 1..Len(before) :
             /\ SuccessorSet(before[i].InvokeNext) \cap VMNames(before) # {}
             /\ SuccessorSet(before[i].InvokeNext) \ VMNames(before) # {}
             /\ after[i].InvokeNext # before[i].InvokeNext
       /\ \E n \in NameSet(before) \ VMNames(before) :
             /\ Ancestors(before, n) # {}
             /\ Ancestors(before, n) \cap VMNames(before) = {}

(***************************************************************************)
(* C15.  Stop exactly once and last: in the graph either strategy produces *)
(* from an acyclic input with one zero-predecessor action there is exactly *)
(* one stop action, the graph is acyclic, and every maximal path from      *)
(* faasr-vm-start ends at faasr-vm-stop: the only action reached from      *)
(* faasr-vm-start that has no successor is faasr-vm-stop, so every other   *)
(* action that runs is an ancestor of the stop action.                     *)
(***************************************************************************)
StopActions(action_list) ==
    {i \in 1..Len(action_list) :
        action_list[i].name = vm_stop_name \/ action_list[i].FunctionName = "vm_stop"}

StopOnceAndLast ==
    LET before == original_workflow.ActionList
        after == workflow.ActionList
        reached == {vm_start_name} \cup ReachableFrom(after, vm_start_name)
    IN (/\ Called
        /\ ret.err = "none"
        /\ Acyclic(before)
        /\ Cardinality(ZeroPredecessor(before)) = 1) =>
         /\ Cardinality(StopActions(after)) = 1
         /\ Acyclic(after)
         /\ reached \subseteq NameSet(after)
         /\ {n \in reached : Successors(after, n) = {}} = {vm_stop_name}
         /\ \A n \in reached \ {vm_stop_name} : vm_stop_name \in ReachableFrom(after, n)

(***************************************************************************)
(* C16.  No partially transformed graph is persisted: in a run, the        *)
(* document is written to the output only once every insertion and every   *)
(* redirection of the injection call is done, and when the injection call  *)
(* fails at any step nothing is written and the run returns False.         *)
(***************************************************************************)
(* Every insertion and redirection the strategy makes is in wf. *)
InjectionFinished(wf, before, s) ==
    LET after == wf.ActionList
        builtins == {i \in 1..Len(after) : after[i].builtin}
        polls == IF s = "parallel" THEN VMNames(before.ActionList) ELSE {}
    IN /\ InActionList(after, vm_start_name)
       /\ InActionList(after, vm_stop_name)
       /\ \A V \in polls : InActionList(after, poll_action_name(V))
       /\ Cardinality(builtins) = 2 + Cardinality(polls)
       /\ \A i \in 1..Len(before.ActionList) :
             LET old == before.ActionList[i].InvokeNext
             IN /\ EmptyInvokeNext(old) => after[i].InvokeNext = ListNext(<<vm_stop_name>>)
                /\ old.shape \in {"str", "list"} =>
                      SuccessorSet(after[i].InvokeNext) \cap polls = {}
       /\ wf.ActionContainers.present
       /\ wf.FunctionInvoke = vm_start_name

NoPartialGraphPersisted ==
    op = "run" =>
       /\ pc = "returned"
       /\ ret.err # "none" => ~ret.success /\ output = NoDocument
       /\ ret.err = "none" =>
             /\ ret.success
             /\ output = workflow
             /\ \/ VMNames(original_workflow.ActionList) = {} /\ output = original_workflow
                \/ InjectionFinished(output, original_workflow, strategy)

NoPartialGraphPersistedWitness ==
    /\ op = "run"
    /\ pc = "returned"
    /\ ret.err = "NameConflict"
    /\ workflow # original_workflow
    /\ InActionList(workflow.ActionList, vm_start_name)
    /\ output = NoDocument
    /\ ~ret.success

(***************************************************************************)
(* C17.  FindHostCapableServer returns the name of a compute server of     *)
(* type GitHubActions whenever one is defined, and fails when no server    *)
(* has that type or no servers are defined; every synthetic action a       *)
(* successful injection creates is bound to the server it returns.         *)
(***************************************************************************)
GitHubServerNames(wf) ==
    {wf.ComputeServers.list[i].name :
        i \in {j \in 1..Len(wf.ComputeServers.list) :
                  wf.ComputeServers.list[j].FaaSType = "GitHubActions"}}

HostCapableServer ==
    /\ op = "find_github_server" =>
          IF HasGitHubServer(workflow)
          THEN ret.err = "none" /\ ret.name \in GitHubServerNames(workflow)
          ELSE ret.err = (IF workflow.ComputeServers.present
                          THEN "NoHostCapableServer" ELSE "NoComputeServers")
    /\ (Called /\ ret.err = "none") =>
          \A i \in 1..Len(workflow.ActionList) :
             workflow.ActionList[i].builtin =>
                /\ workflow.ActionList[i].FaaSServer \in GitHubServerNames(original_workflow)
                /\ workflow.ActionList[i].FaaSServer = find_github_server(original_workflow).name

HostCapableServerWitness ==
    /\ CalledParallel
    /\ ret.err = "none"
    /\ original_workflow.ComputeServers.list = <<OtherServer, GitHubServer2, GitHubServer>>
    /\ \E i \in 1..Len(workflow.ActionList) :
          /\ workflow.ActionList[i].FunctionName = "vm_poll"
          /\ workflow.ActionList[i].builtin
          /\ workflow.ActionList[i].FaaSServer = "gh2"

(***************************************************************************)
(* C18.  Container propagation: FindContainerForServer returns a container *)
(* of an action bound to the given server when there is one and none       *)
(* otherwise; an injection whose checks pass succeeds whether or not a     *)
(* container was found; after a successful injection every synthetic       *)
(* action (start, stop, each poll) has that container in the container map *)
(* when one was found and no container entry when none was.                *)
(***************************************************************************)
ContainersOn(wf, server_name) ==
    {wf.ActionContainers.map[wf.ActionList[i].name] :
        i \in {j \in 1..Len(wf.ActionList) :
                  /\ wf.ActionList[j].FaaSServer = server_name
                  /\ wf.ActionList[j].name \in DOMAIN wf.ActionContainers.map
                  /\ wf.ActionContainers.map[wf.ActionList[j].name] # ""}}

NoPollNameClash(action_list) ==
    \A V \in VMNames(action_list) : ~InActionList(action_list, poll_action_name(V))

ContainerPropagation ==
    LET before == original_workflow
        synthetic == {workflow.ActionList[i].name :
                         i \in {j \in 1..Len(workflow.ActionList) :
                                   workflow.ActionList[j].builtin}}
        cmap == workflow.ActionContainers.map
    IN /\ op = "find_container_for_server" =>
             IF ContainersOn(workflow, ret.server_name) = {}
             THEN ~ret.container.found
             ELSE /\ ret.container.found
                  /\ ret.container.image \in ContainersOn(workflow, ret.server_name)
       /\ (/\ Called
           /\ EarlierChecksPass(before)
           /\ ~HasReservedName(before.ActionList)
           /\ CalledParallel => NoPollNameClash(before.ActionList)) => ret.err = "none"
       /\ (Called /\ ret.err = "none") =>
             LET found == ContainersOn(before, ActionByName(workflow.ActionList,
                                                            vm_start_name).FaaSServer)
             IN IF found = {}
                THEN synthetic \cap DOMAIN cmap = {}
                ELSE /\ synthetic \subseteq DOMAIN cmap
                     /\ \E image \in found : \A n \in synthetic : cmap[n] = image

ContainerPropagationWitness ==
    /\ CalledParallel
    /\ ret.err = "none"
    /\ Len(original_workflow.ActionList) = 2
    /\ original_workflow.ActionList[1].FaaSServer = "gh"
    /\ original_workflow.ActionList[2].FaaSServer = "gh"
    /\ original_workflow.ActionContainers.map = [n \in {"a", "b"} |-> IF n = "a" THEN "" ELSE "img_b"]
    /\ \A n \in {vm_start_name, vm_stop_name, poll_action_name("a"), poll_action_name("b")} :
          /\ n \in DOMAIN workflow.ActionContainers.map
          /\ workflow.ActionContainers.map[n] = "img_b"

(***************************************************************************)
(* The timer round trip.                                                   *)
(***************************************************************************)
(* The section a timer function works on: the one under the first of the   *)
(* keys 'on', True, 'true'.                                                *)
OnSection(yaml) == yaml.triggers[OnKeys[FindOnKey(yaml)]]

(* The manual-only state: no schedule, both inputs required without a      *)
(* default, and the env variables of every job that has them (at least one *)
(* has) equal to ${{ github.event.inputs.<name> }}.                         *)
ManualOnly(yaml) ==
    /\ FindOnKey(yaml) # 0
    /\ LET on_section == OnSection(yaml)
       IN /\ on_section.kind = "dict"
          /\ ~on_section.schedule.present
          /\ on_section.workflow_dispatch.kind = "dict"
          /\ on_section.workflow_dispatch.has_inputs
          /\ DOMAIN on_section.workflow_dispatch.inputs = InputNames
          /\ \A x \in InputNames :
               on_section.workflow_dispatch.inputs[x] = ManualInput
    /\ yaml.jobs.present
    /\ \E i \in 1..Len(yaml.jobs.list) : yaml.jobs.list[i].has_env
    /\ \A i \in 1..Len(yaml.jobs.list) :
          yaml.jobs.list[i].has_env =>
             /\ DOMAIN yaml.jobs.list[i].env = InputNames
             /\ \A x \in InputNames : yaml.jobs.list[i].env[x] = EnvDirect(x)

(* A workflow file in manual-only state, by what its text says: one        *)
(* trigger entry under a bare on, in the manual-only state.  The file a    *)
(* registration without a schedule writes is one.                          *)
Registered(file) ==
    /\ file.form = "text"
    /\ Len(file.entries) = 1
    /\ file.entries[1].key = "on"
    /\ ManualOnly([kind |-> "dict",
                   triggers |-> [k \in {"True"} |-> file.entries[1].section],
                   jobs |-> file.jobs])

(* A run of set_workflow_timer.py, then a run of unset_workflow_timer.py,  *)
(* and nothing else, have been made on the registered file.                *)
SetThenUnset ==
    /\ Len(calls) = 2
    /\ calls[1].op = "set_timer_in_yaml"
    /\ calls[2].op = "unset_timer_in_yaml"

TimerRoundTripWhenRead ==
    (/\ Registered(registered_file)
     /\ read_workflow_yaml(registered_file).err = "none"
     /\ SetThenUnset) =>
        /\ calls[1].err = "none"
        /\ calls[2].err = "none"
        /\ yaml_file = registered_file
        /\ read_workflow_yaml(yaml_file) = read_workflow_yaml(registered_file)
        /\ calls[2].had_schedule

TimerRoundTripWhenReadWitness ==
    /\ Registered(registered_file)
    /\ read_workflow_yaml(registered_file).err = "none"
    /\ SetThenUnset
    /\ calls[1].payload_url = "url2"
    /\ Len(registered_file.jobs.list) = 2
    /\ DOMAIN workflow_yaml.triggers = {"on"}
    /\ DOMAIN read_workflow_yaml(yaml_file).yaml.triggers = {"True"}
    /\ yaml_file = registered_file

(* The runs on the file a registration has written: every one ends in      *)
(* read_workflow_yaml, and the file is left as it was.                     *)
RegisteredFileNotRead ==
    registered_file \in GeneratedFiles =>
        /\ yaml_file = registered_file
        /\ \A i \in 1..Len(calls) :
              calls[i].step = "read_workflow_yaml" /\ ~calls[i].had_schedule

(***************************************************************************)
(* C20.  VM-requiring leaf ordering: after a successful InjectParallel, a  *)
(* leaf L of the input that is itself VM-requiring lies on                 *)
(* predecessor -> faasr-vm-poll-L -> L -> faasr-vm-stop: the successors of *)
(* faasr-vm-poll-L are [L] (not the stop action), the successors of L are  *)
(* [faasr-vm-stop], and every action that named L names faasr-vm-poll-L,   *)
(* which is the only action left that names L.                             *)
(***************************************************************************)
VMLeafOrdering ==
    LET before == original_workflow.ActionList
        after == workflow.ActionList
    IN (CalledParallel /\ ret.err = "none") =>
         \A L \in VMNames(before) \cap NormalLeaves(before) :
            /\ ActionByName(after, poll_action_name(L)).InvokeNext = ListNext(<<L>>)
            /\ ActionByName(after, L).InvokeNext = ListNext(<<vm_stop_name>>)
            /\ Predecessors(after, L) = {poll_action_name(L)}
            /\ \A P \in Predecessors(before, L) :
                  poll_action_name(L) \in Successors(after, P)

(***************************************************************************)
(* C21.  After a successful InjectSequential the entry-point field of the  *)
(* workflow names faasr-vm-start, the InvokeNext of the start action is    *)
(* exactly the one action find_entry_action returned for the input (the    *)
(* only action of the input with no predecessor), and the stop action has  *)
(* no successor.                                                           *)
(***************************************************************************)
SequentialStartStop ==
    LET before == original_workflow.ActionList
        after == workflow.ActionList
    IN (CalledSequential /\ ret.err = "none") =>
         /\ workflow.FunctionInvoke = vm_start_name
         /\ find_entry_action(original_workflow).err = "none"
         /\ ActionByName(after, vm_start_name).InvokeNext =
               ListNext(<<find_entry_action(original_workflow).name>>)
         /\ Successors(after, vm_start_name) = ZeroPredecessor(before)
         /\ ActionByName(after, vm_stop_name).InvokeNext = ListNext(<<>>)

SequentialStartStopWitness ==
    LET before == original_workflow.ActionList
        after == workflow.ActionList
    IN /\ CalledSequential
       /\ ret.err = "none"
       /\ Len(before) >= 2
       /\ original_workflow.FunctionInvoke # find_entry_action(original_workflow).name
       /\ before[1].name # find_entry_action(original_workflow).name
       /\ workflow.FunctionInvoke = vm_start_name
       /\ ActionByName(after, vm_start_name).InvokeNext =
             ListNext(<<find_entry_action(original_workflow).name>>)

(***************************************************************************)
(* C22.  Re-injection is rejected: either strategy, applied to the output  *)
(* of a successful injection (sequential or parallel), fails with          *)
(* NameConflict, the start name being taken, and leaves the injected       *)
(* workflow as it is: no action is added, none is renamed.                 *)
(***************************************************************************)
ReinjectionRejected ==
    (Called /\ ret.err = "none") =>
        /\ InActionList(workflow.ActionList, vm_start_name)
        /\ inject_vm_actions_sequential(workflow) = [err |-> "NameConflict", wf |-> workflow]
        /\ inject_vm_actions_parallel(workflow) = [err |-> "NameConflict", wf |-> workflow]

(***************************************************************************)
(* C23.  Order-preserving redirection: when InjectParallel redirects a     *)
(* list-shaped InvokeNext that contains the VM-requiring action V, the     *)
(* result is a list of the same length and order in which every occurrence *)
(* of V is replaced by faasr-vm-poll-V and every other element is kept; an *)
(* InvokeNext that does not contain V is left untouched by the step of V   *)
(* (a step that is made only when the name faasr-vm-poll-V is free).       *)
(* After a successful InjectParallel, hence, every list of the input that  *)
(* is not a leaf's holds element by element its VM-requiring targets'      *)
(* poll actions and its other targets.                                     *)
(***************************************************************************)
Repointed(items, vm_names) ==
    [k \in 1..Len(items) |->
        IF items[k] \in vm_names THEN poll_action_name(items[k]) ELSE items[k]]

OrderPreservingRedirection ==
    LET before == original_workflow.ActionList
        after == workflow.ActionList
    IN /\ CalledParallel =>
         \A i \in 1..Len(before) :
         \A V \in {n \in VMNames(before) : ~InActionList(before, poll_action_name(n))} :
            LET inv == before[i].InvokeNext
                step == RedirectAction(before[i], V, poll_action_name(V))
            IN /\ (inv.shape = "list" /\ V \in SeqToSet(inv.items)) =>
                     step = [before[i] EXCEPT
                               !.InvokeNext = ListNext(Repointed(inv.items, {V}))]
               /\ V \notin SuccessorSet(inv) => step = before[i]
       /\ (CalledParallel /\ ret.err = "none") =>
             \A i \in 1..Len(before) :
                (before[i].InvokeNext.shape = "list" /\ before[i].InvokeNext.items # <<>>) =>
                    after[i] = [before[i] EXCEPT
                                  !.InvokeNext = ListNext(Repointed(before[i].InvokeNext.items,
                                                                    VMNames(before)))]

OrderPreservingRedirectionWitness ==
    LET before == original_workflow.ActionList
        after == workflow.ActionList
    IN /\ CalledParallel
       /\ ret.err = "none"
       /\ \E i \in 1..Len(before) : \E V \in VMNames(before) :
             /\ before[i].InvokeNext.shape = "list"
             /\ Len(before[i].InvokeNext.items) = 2
             /\ before[i].InvokeNext.items[2] = V
             /\ before[i].InvokeNext.items[1] \notin VMNames(before)
             /\ after[i].InvokeNext.items =
                   <<before[i].InvokeNext.items[1], poll_action_name(V)>>
       /\ \E i \in 1..Len(before) :
             /\ before[i].InvokeNext.shape = "list"
             /\ before[i].InvokeNext.items # <<>>
             /\ SeqToSet(before[i].InvokeNext.items) \cap VMNames(before) = {}
             /\ after[i] = before[i]

(***************************************************************************)
(* C24.  The edge of the start action is redirected like any other: after  *)
(* a successful InjectParallel on an input whose entry action E is         *)
(* VM-requiring, the InvokeNext of faasr-vm-start is exactly               *)
(* [faasr-vm-poll-E] and that of faasr-vm-poll-E exactly [E]; when E is    *)
(* not VM-requiring, the InvokeNext of faasr-vm-start is exactly [E].      *)
(***************************************************************************)
StartEdgeGated ==
    LET before == original_workflow.ActionList
        after == workflow.ActionList
        E == find_entry_action(original_workflow).name
    IN (CalledParallel /\ ret.err = "none") =>
         /\ ZeroPredecessor(before) = {E}
         /\ E \in VMNames(before) =>
               /\ ActionByName(after, vm_start_name).InvokeNext =
                     ListNext(<<poll_action_name(E)>>)
               /\ ActionByName(after, poll_action_name(E)).InvokeNext = ListNext(<<E>>)
         /\ E \notin VMNames(before) =>
               ActionByName(after, vm_start_name).InvokeNext = ListNext(<<E>>)

StartEdgeGatedWitness ==
    LET before == original_workflow.ActionList
        after == workflow.ActionList
        E == find_entry_action(original_workflow).name
    IN /\ CalledParallel
       /\ ret.err = "none"
       /\ E \in VMNames(before)
       /\ Len(before) >= 2
       /\ ActionByName(after, vm_start_name).InvokeNext = ListNext(<<poll_action_name(E)>>)
       /\ ActionByName(after, poll_action_name(E)).InvokeNext = ListNext(<<E>>)

(***************************************************************************)
(* C25.  Well-formedness is preserved: if the input graph is acyclic and   *)
(* every successor target names an action of it, then after a successful   *)
(* injection under either strategy the output graph is acyclic, every      *)
(* successor target names an action of it, and every action, original or   *)
(* injected, is reached from faasr-vm-start.                               *)
(***************************************************************************)
TargetsExist(action_list) ==
    \A n \in NameSet(action_list) : Successors(action_list, n) \subseteq NameSet(action_list)

WellFormednessPreserved ==
    LET before == original_workflow.ActionList
        after == workflow.ActionList
    IN (Called /\ ret.err = "none" /\ Acyclic(before) /\ TargetsExist(before)) =>
         /\ Acyclic(after)
         /\ TargetsExist(after)
         /\ NameSet(after) = {vm_start_name} \cup ReachableFrom(after, vm_start_name)

(***************************************************************************)
(* C26.  Injection frame on original actions: a successful injection under *)
(* either strategy removes no original action, changes nothing of an       *)
(* original action but its InvokeNext (RequiresVM, FaaSServer and          *)
(* FunctionName are kept), leaves the server map and the VM configuration  *)
(* unchanged, and every injected action has RequiresVM false, so the       *)
(* VM-requiring actions are the same before and after.                     *)
(***************************************************************************)
InjectionFrame ==
    LET before == original_workflow.ActionList
        after == workflow.ActionList
    IN (Called /\ ret.err = "none") =>
         /\ Len(after) >= Len(before) + 2
         /\ \A i \in 1..Len(before) :
               after[i] = [before[i] EXCEPT !.InvokeNext = after[i].InvokeNext]
         /\ \A i \in (Len(before) + 1)..Len(after) :
               /\ ~after[i].RequiresVM
               /\ after[i].builtin
               /\ after[i].name \notin NameSet(before)
         /\ workflow.ComputeServers = original_workflow.ComputeServers
         /\ workflow.VMConfig = original_workflow.VMConfig
         /\ VMNames(after) = VMNames(before)

InjectionFrameWitness ==
    LET before == original_workflow.ActionList
        after == workflow.ActionList
    IN /\ CalledParallel
       /\ ret.err = "none"
       /\ Len(before) = 3
       /\ Cardinality(VMNames(before)) = 2
       /\ Len(after) = 7
       /\ \E i \in 1..Len(before) : after[i].InvokeNext # before[i].InvokeNext
       /\ \E i \in 1..Len(before) : before[i].FaaSServer # after[Len(before) + 1].FaaSServer
       /\ VMNames(after) = VMNames(before)

(***************************************************************************)
(* C27.  The two strategies differ only by the poll gates: for every input *)
(* both accept, the output of InjectParallel with every poll action        *)
(* deleted and every edge to faasr-vm-poll-V re-pointed at V has the same  *)
(* actions, the same successor sets, the same entry point and the same     *)
(* container entries for start and stop as the output of InjectSequential  *)
(* (what inject_vm_actions_sequential makes of the input of the call).     *)
(***************************************************************************)
Unpolled(action_list, t) ==
    IF \E i \in PollActions(action_list) : action_list[i].name = t
    THEN CHOOSE V \in NameSet(action_list) : poll_action_name(V) = t
    ELSE t

ContainerEntry(wf, n) ==
    IF wf.ActionContainers.present /\ n \in DOMAIN wf.ActionContainers.map
    THEN <<wf.ActionContainers.map[n]>> ELSE <<>>

StrategiesDifferByPolls ==
    LET seq == inject_vm_actions_sequential(original_workflow)
        s == seq.wf.ActionList
        p == workflow.ActionList
        kept == NameSet(p) \ PollNames(p)
    IN (CalledParallel /\ ret.err = "none" /\ seq.err = "none") =>
         /\ kept = NameSet(s)
         /\ \A n \in kept :
               {Unpolled(p, t) : t \in Successors(p, n)} = Successors(s, n)
         /\ workflow.FunctionInvoke = seq.wf.FunctionInvoke
         /\ \A n \in {vm_start_name, vm_stop_name} :
               ContainerEntry(workflow, n) = ContainerEntry(seq.wf, n)

StrategiesDifferByPollsWitness ==
    LET seq == inject_vm_actions_sequential(original_workflow)
        before == original_workflow.ActionList
    IN /\ CalledParallel
       /\ ret.err = "none"
       /\ seq.err = "none"
       /\ Cardinality(PollNames(workflow.ActionList)) = 2
       /\ \E i \in 1..Len(before) :
             workflow.ActionList[i].InvokeNext # seq.wf.ActionList[i].InvokeNext
       /\ ContainerEntry(workflow, vm_start_name) # <<>>

(***************************************************************************)
(* C28.  Timer update consistency: after any sequence of set_timer_in_yaml *)
(* calls on a workflow YAML that has the PAYLOAD_URL input and environment *)
(* variable, the schedule holds exactly one cron entry, the cron of the    *)
(* last call, and the default of the PAYLOAD_URL input and the fallback of *)
(* the PAYLOAD_URL environment variable both hold the payload URL of the   *)
(* last call.                                                              *)
(***************************************************************************)
OnlySetCalls ==
    /\ calls # <<>>
    /\ \A i \in 1..Len(calls) : calls[i].op = "set_timer_in_yaml" /\ calls[i].err = "none"

HasPayloadUrl(yaml) ==
    /\ FindOnKey(yaml) # 0
    /\ OnSection(yaml).kind = "dict"
    /\ OnSection(yaml).workflow_dispatch.kind = "dict"
    /\ "PAYLOAD_URL" \in DOMAIN OnSection(yaml).workflow_dispatch.inputs
    /\ yaml.jobs.present
    /\ \E i \in 1..Len(yaml.jobs.list) :
          /\ yaml.jobs.list[i].has_env
          /\ "PAYLOAD_URL" \in DOMAIN yaml.jobs.list[i].env

TimerUpdateConsistency ==
    (OnlySetCalls /\ HasPayloadUrl(read_workflow_yaml(registered_file).yaml)) =>
        LET last == calls[Len(calls)]
            written == read_workflow_yaml(yaml_file).yaml
            on_section == OnSection(written)
        IN /\ on_section.schedule = Schedule(<<last.cron_schedule>>)
           /\ on_section.workflow_dispatch.inputs["PAYLOAD_URL"].default =
                 Default(last.payload_url)
           /\ \A i \in 1..Len(written.jobs.list) :
                 (/\ written.jobs.list[i].has_env
                  /\ "PAYLOAD_URL" \in DOMAIN written.jobs.list[i].env) =>
                     written.jobs.list[i].env["PAYLOAD_URL"] =
                        EnvFallback("PAYLOAD_URL", last.payload_url)

(***************************************************************************)
(* C29.  The predecessor count find_entry_action computes for an action is *)
(* the number of distinct actions that name it as a successor: an action   *)
(* that names the same target under several conditions of its map, or      *)
(* several times in a list, adds one to the count of the target.           *)
(***************************************************************************)
CalledFindEntry == op = "find_entry_action"

CountsDistinctPredecessors ==
    CalledFindEntry =>
        \A n \in NameSet(workflow.ActionList) :
            predecessor_count(workflow.ActionList, n) =
                Cardinality(Predecessors(workflow.ActionList, n))

(* The places of the document where the action named n is a successor:     *)
(* <<i, 0, k>> for the k-th element of the list (or the string) of action  *)
(* i, <<i, j, k>> for the k-th element under its j-th condition.           *)
Occurrences(action_list, n) ==
    UNION {
        {<<i, 0, k>> : k \in {k \in 1..Len(action_list[i].InvokeNext.items) :
                                 action_list[i].InvokeNext.items[k] = n}}
        \cup UNION {
            {<<i, j, k>> : k \in {k \in 1..Len(action_list[i].InvokeNext.vals[j].items) :
                                     action_list[i].InvokeNext.vals[j].items[k] = n}}
            : j \in 1..Len(action_list[i].InvokeNext.vals)}
        : i \in 1..Len(action_list)}

(* C29, as the code has it: the count is the number of occurrences of the  *)
(* action among the successors of all actions, one for every condition and *)
(* every list position that names it; it is zero exactly when no action    *)
(* names it, so the entry found is the one action without a predecessor.   *)
CountsOccurrences ==
    CalledFindEntry =>
        /\ \A n \in NameSet(workflow.ActionList) :
              /\ predecessor_count(workflow.ActionList, n) =
                    Cardinality(Occurrences(workflow.ActionList, n))
              /\ predecessor_count(workflow.ActionList, n) = 0
                    <=> Predecessors(workflow.ActionList, n) = {}
        /\ ret.err = "none" => ZeroPredecessor(workflow.ActionList) = {ret.name}

CountsOccurrencesWitness ==
    /\ CalledFindEntry
    /\ ret.err = "none"
    /\ \E n \in NameSet(workflow.ActionList) :
          /\ Cardinality(Predecessors(workflow.ActionList, n)) = 1
          /\ predecessor_count(workflow.ActionList, n) = 2
          /\ Cardinality(Occurrences(workflow.ActionList, n)) = 2
          /\ \E i \in 1..Len(workflow.ActionList) :
                /\ workflow.ActionList[i].InvokeNext.shape = "dict"
                /\ n \in SuccessorSet(workflow.ActionList[i].InvokeNext)

====
